---- MODULE Spec2Model ----
(***************************************************************************)
(* The regular-expression engine of regex-machine: parser.rs turns a       *)
(* pattern into an Ast, codegen.rs lowers the Ast to Instructions, and     *)
(* evaluator.rs runs the Instructions over a line, depth-first             *)
(* (eval_depth) or breadth-first (eval_width).  engine.rs::do_matching     *)
(* chains the three stages.                                                *)
(*                                                                         *)
(* Characters are one-character strings; a &str is a sequence of them.     *)
(* Rust indices are 0-based, TLA+ sequences 1-based: v.get(i) is v[i+1].   *)
(***************************************************************************)
EXTENDS Integers, Sequences, FiniteSets

\* ---------------------------------------------------------------- bounds

\* Longest enumerated pattern and longest enumerated input line.
MaxExprLen == 4
MaxLineLen == 2
\* Longest queue of pending threads eval_width is followed to.
MaxQueue == 6

\* Largest usize the model represents (checked_add fails beyond it).
UsizeMax == 1000000

ExprAlphabet == {"a", "b", "+", "*", "?", "|", "(", ")", ".", "\\"}
LineAlphabet == {"a", "b"}

Strings(alphabet, n) == UNION {[1..k -> alphabet] : k \in 0..n}

\* tests::test_start, tests::test_end (evaluator.rs) and tests::escaped_regex
\* (parser.rs): "^abc(^def|123)", "abc(def|123$)+" and "1\?\*23".
START_PATTERN ==
    <<"^", "a", "b", "c", "(", "^", "d", "e", "f", "|", "1", "2", "3", ")">>
END_PATTERN ==
    <<"a", "b", "c", "(", "d", "e", "f", "|", "1", "2", "3", "$", ")", "+">>
ESCAPED_PATTERN == <<"1", "\\", "?", "\\", "*", "2", "3">>
\* tests::or_regex (codegen.rs): "abc|123"
ABC_OR_123 == <<"a", "b", "c", "|", "1", "2", "3">>
\* tests::or_regex (parser.rs) with a third alternative: "abc|123|def"
ABC_OR_123_OR_DEF == <<"a", "b", "c", "|", "1", "2", "3", "|", "d", "e", "f">>
\* tests::nested_paren_regex (parser.rs): "(abc(123)def)"
NESTED_PAREN ==
    <<"(", "a", "b", "c", "(", "1", "2", "3", ")", "d", "e", "f", ")">>
\* a group with an alternation inside an alternative of a group: "(a|b(c|d))"
NESTED_OR == <<"(", "a", "|", "b", "(", "c", "|", "d", ")", ")">>

\* The patterns and lines of the repository's own tests, as (expr, line).
Examples ==
    { <<<<"a", "b", "c", "?">>, <<"a", "c", "d">>>>,
      <<<<"a", "b", "c", "?">>, <<"a", "b", "c", "d">>>>,
      <<<<"a", "b", "c">>, <<"a", "b", "c", "d", "e">>>>,
      <<<<"b", "?", "+", "*">>, <<>>>>,
      <<<<"b", "?", "+", "*">>, <<"b", "b">>>>,
      <<<<"a", "+">>, <<"b">>>>,
      <<<<"(", "a", "b", "|", "c", "d", ")", "+">>, <<"a", "b", "c", "d">>>>,
      <<<<"(", "a", "b", "|", "c", "d", ")", "+">>, <<>>>>,
      <<<<"a", "b", "c", "|", "d", "e", "f">>, <<"d", "e", "f">>>>,
      <<<<"a", "b", "c", "|", "d", "e", "f">>, <<"a", "b", "d">>>>,
      <<<<"(", "a", "b", "c", ")", "*">>, <<"a", "b", "c", "a", "b", "c">>>>,
      <<START_PATTERN, <<"a", "b", "c", "1", "2", "3">>>>,
      <<START_PATTERN, <<"a", "b", "c", "d", "e", "f">>>>,
      <<END_PATTERN, <<"a", "b", "c", "1", "2", "3">>>>,
      <<END_PATTERN, <<"a", "b", "c", "1", "2", "3", "d", "e", "f">>>>,
      <<<<"a", "b", "c", ")">>, <<>>>>,
      <<<<"(", "a", "b", "c", "(", "1", "2", "3", ")">>, <<>>>>,
      <<ESCAPED_PATTERN, <<>>>>,
      <<ABC_OR_123, <<>>>>,
      <<<<"(", "a", "|", "b", ")", "*">>, <<"b", "a">>>>,
      <<ABC_OR_123_OR_DEF, <<>>>>,
      <<NESTED_PAREN, <<>>>>,
      <<NESTED_OR, <<>>>> }

Exprs == Strings(ExprAlphabet, MaxExprLen) \cup {ex[1] : ex \in Examples}
Lines(e) == Strings(LineAlphabet, MaxLineLen) \cup {ex[2] : ex \in {x \in Examples : x[1] = e}}

\* ------------------------------------------------------------ helper.rs

\* impl SafeAdd for usize: checked_add, None on overflow.
checked_add(a, n) == IF a > UsizeMax - n THEN [tag |-> "None"]
                     ELSE [tag |-> "Some", n |-> a + n]

\* Mutant: safe_add as a wrapping addition that always returns Ok.
safe_add_wrapping(d, n, f) ==
    [dst |-> (d + n) % (UsizeMax + 1), ret |-> "Ok"]

\* fn safe_add(dst, src, f) -> Result<(), E>: the value of *dst after the
\* call and what the call returns, Ok(()) or Err(f()).
safe_add(d, n, f) ==
    LET sum == checked_add(d, n)
    IN  IF sum.tag = "Some" THEN [dst |-> sum.n, ret |-> "Ok"]
        ELSE [dst |-> d, ret |-> f]

\* ------------------------------------------------------------ parser.rs

\* enum Ast
Char(c) == [k |-> "Char", c |-> c]
Plus(e) == [k |-> "Plus", e |-> e]
Star(e) == [k |-> "Star", e |-> e]
Question(e) == [k |-> "Question", e |-> e]
Or(e1, e2) == [k |-> "Or", e1 |-> e1, e2 |-> e2]
SeqAst(es) == [k |-> "Seq", es |-> es]
Any == [k |-> "Any"]

\* enum ParseError
InvalidEscape(pos, c) == [e |-> "InvalidEscape", pos |-> pos, c |-> c]
InvalidRightParen(pos) == [e |-> "InvalidRightParen", pos |-> pos, c |-> ""]
NoPrev(pos) == [e |-> "NoPrev", pos |-> pos, c |-> ""]
NoRightParen == [e |-> "NoRightParen", pos |-> 0, c |-> ""]
Empty == [e |-> "Empty", pos |-> 0, c |-> ""]

Ok(v) == [tag |-> "Ok", v |-> v]
Err(e) == [tag |-> "Err", e |-> e]
None == [tag |-> "None"]
Some(v) == [tag |-> "Some", v |-> v]

Front(s) == SubSeq(s, 1, Len(s) - 1)
Last(s) == s[Len(s)]

\* Mutant: every character may be escaped.
parse_escape_any(pos, c) == Ok(Char(c))

\* fn parse_escape(pos, c)
parse_escape(pos, c) ==
    IF c \in {"\\", "(", ")", "|", "+", "*", "?", "."}
    THEN Ok(Char(c))
    ELSE Err(InvalidEscape(pos, c))

\* Mutant: the quantifier wraps the whole buffer instead of its last element.
parse_plus_star_question_all(s, ast_type, pos) ==
    IF Len(s) > 0
    THEN LET prev == SeqAst(s)
             new == CASE ast_type = "Plus" -> Plus(prev)
                      [] ast_type = "Star" -> Star(prev)
                      [] ast_type = "Question" -> Question(prev)
         IN  Ok(<<new>>)
    ELSE Err(NoPrev(pos))

\* Mutant: the last element is read but not popped before the push.
parse_plus_star_question_nopop(s, ast_type, pos) ==
    IF Len(s) > 0
    THEN LET prev == Last(s)
             new == CASE ast_type = "Plus" -> Plus(prev)
                      [] ast_type = "Star" -> Star(prev)
                      [] ast_type = "Question" -> Question(prev)
         IN  Ok(Append(s, new))
    ELSE Err(NoPrev(pos))

\* Mutant: NoPrev reports the index after the quantifier.
parse_plus_star_question_late(s, ast_type, pos) ==
    IF Len(s) > 0
    THEN LET prev == Last(s)
             new == CASE ast_type = "Plus" -> Plus(prev)
                      [] ast_type = "Star" -> Star(prev)
                      [] ast_type = "Question" -> Question(prev)
         IN  Ok(Append(Front(s), new))
    ELSE Err(NoPrev(pos + 1))

\* fn parse_plus_star_question(seq, ast_type, pos): Ok carries the new seq.
parse_plus_star_question(s, ast_type, pos) ==
    IF Len(s) > 0
    THEN LET prev == Last(s)
             new == CASE ast_type = "Plus" -> Plus(prev)
                      [] ast_type = "Star" -> Star(prev)
                      [] ast_type = "Question" -> Question(prev)
         IN  Ok(Append(Front(s), new))
    ELSE Err(NoPrev(pos))

\* The for loop of fold_or over the reversed rest: rest[i], i = Len(rest)..1.
RECURSIVE fold_or_loop(_, _)
fold_or_loop(rest, acc) ==
    IF rest = <<>> THEN acc
    ELSE fold_or_loop(Front(rest), Or(Last(rest), acc))

\* Mutant: fold_or without seq_or.reverse(), the loop running front to back.
fold_or_unreversed(so) ==
    IF Len(so) > 1
    THEN Some(fold_or_loop([i \in 1..(Len(so) - 1) |-> so[Len(so) - i]], Last(so)))
    ELSE IF Len(so) = 1 THEN Some(so[1]) ELSE None

\* fn fold_or(seq_or) -> Option<Ast>
fold_or(so) ==
    IF Len(so) > 1
    THEN Some(fold_or_loop(Front(so), Last(so)))
    ELSE IF Len(so) = 1 THEN Some(so[1]) ELSE None


\* Mutant: a `)` that pushes Seq(seq) as an alternative even when seq is
\* empty.
close_group_pushes(top, sq, so) ==
    LET alts == Append(so, SeqAst(sq))
        f == fold_or(alts)
    IN  [seq |-> IF f.tag = "Some" THEN Append(top.prev, f.v) ELSE top.prev,
         seq_or |-> top.prev_or]

\* Mutant: a `)` that appends the group's alternatives to the enclosing
\* alternation instead of dropping them.
close_group_leak(top, sq, so) ==
    LET alts == IF sq # <<>> THEN Append(so, SeqAst(sq)) ELSE so
        f == fold_or(alts)
    IN  [seq |-> IF f.tag = "Some" THEN Append(top.prev, f.v) ELSE top.prev,
         seq_or |-> top.prev_or \o so]

\* The `)` arm of parse after stack.pop() returned Some((prev, prev_or)):
\* the new seq and seq_or.
close_group(top, sq, so) ==
    LET alts == IF sq # <<>> THEN Append(so, SeqAst(sq)) ELSE so
        f == fold_or(alts)
    IN  [seq |-> IF f.tag = "Some" THEN Append(top.prev, f.v) ELSE top.prev,
         seq_or |-> top.prev_or]

\* ------------------------------------------------------------ engine.rs

\* enum Instruction; x and y are the operands of Jump(x) and Split(x, y).
IChar(c) == [op |-> "Char", c |-> c, x |-> 0, y |-> 0]
IMatch == [op |-> "Match", c |-> "", x |-> 0, y |-> 0]
IJump(x) == [op |-> "Jump", c |-> "", x |-> x, y |-> 0]
ISplit(x, y) == [op |-> "Split", c |-> "", x |-> x, y |-> y]
\* The instructions evaluator.rs also matches on.
IAny == [op |-> "Any", c |-> "", x |-> 0, y |-> 0]
IStart == [op |-> "Start", c |-> "", x |-> 0, y |-> 0]
IEnd == [op |-> "End", c |-> "", x |-> 0, y |-> 0]

\* ----------------------------------------------------------- codegen.rs

\* struct Generator { pc, insts }, with the error a gen_* method returned
\* ("None" while every call so far returned Ok).
Generator_default == [pc |-> 0, insts |-> <<>>, err |-> "None"]

\* Generator::inc_pc
inc_pc(g) ==
    LET n == checked_add(g.pc, 1)
    IN  IF n.tag = "Some" THEN [g EXCEPT !.pc = n.n]
        ELSE [g EXCEPT !.err = "PCOverFlow"]

push(g, inst) == [g EXCEPT !.insts = Append(g.insts, inst)]

\* insts.get_mut(addr) is Some(Split(_, l2)) / Some(Jump(l3))
IsAt(g, addr, op) == addr < Len(g.insts) /\ g.insts[addr + 1].op = op

\* Generator::gen_char
gen_char(g, c) == inc_pc(push(g, IChar(c)))

\* Mutant: the split of a plus is pushed without the increment of pc.
gen_plus_tail_stale(g, start_addr) ==
    push(g, ISplit(start_addr, g.pc + 1))

\* The tail of gen_plus after gen_expr(ast)? returned Ok.
gen_plus_tail(g, start_addr) ==
    LET g1 == inc_pc(g)
    IN  IF g1.err # "None" THEN g1
        ELSE push(g1, ISplit(start_addr, g1.pc))

\* The head of gen_star, gen_question and gen_or up to the push of the split.
gen_split_head(g) ==
    LET g1 == inc_pc(g)
    IN  IF g1.err # "None" THEN g1
        ELSE push(g1, ISplit(g1.pc, 0))

\* Mutant: the jump of a star goes back to the child, not to the split.
gen_star_tail_child(g, split_addr) ==
    LET g1 == inc_pc(push(g, IJump(split_addr + 1)))
    IN  IF g1.err # "None" THEN g1
        ELSE IF IsAt(g1, split_addr, "Split")
             THEN [g1 EXCEPT !.insts[split_addr + 1].y = g1.pc]
             ELSE [g1 EXCEPT !.err = "FailStar"]

\* The tail of gen_star after gen_expr(ast)? returned Ok.
gen_star_tail(g, split_addr) ==
    LET g1 == inc_pc(push(g, IJump(split_addr)))
    IN  IF g1.err # "None" THEN g1
        ELSE IF IsAt(g1, split_addr, "Split")
             THEN [g1 EXCEPT !.insts[split_addr + 1].y = g1.pc]
             ELSE [g1 EXCEPT !.err = "FailStar"]

\* Mutant: the split is patched to the start of the child, not to its end.
gen_question_tail_start(g, split_addr) ==
    IF IsAt(g, split_addr, "Split")
    THEN [g EXCEPT !.insts[split_addr + 1].y = split_addr + 1]
    ELSE [g EXCEPT !.err = "FailQuestion"]

\* The tail of gen_question after gen_expr(ast)? returned Ok.
gen_question_tail(g, split_addr) ==
    IF IsAt(g, split_addr, "Split")
    THEN [g EXCEPT !.insts[split_addr + 1].y = g.pc]
    ELSE [g EXCEPT !.err = "FailQuestion"]

\* Mutant: the split of an alternation is patched to the address of the
\* jump, not to the address after it.
gen_or_mid_early(g, split_addr) ==
    LET g1 == inc_pc(push(g, IJump(0)))
    IN  IF g1.err # "None" THEN g1
        ELSE IF IsAt(g1, split_addr, "Split")
             THEN [g1 EXCEPT !.insts[split_addr + 1].y = g.pc]
             ELSE [g1 EXCEPT !.err = "FailOr"]

\* gen_or between gen_expr(e1)? and gen_expr(e2)?: the jump and the
\* patch of the split.
gen_or_mid(g, split_addr) ==
    LET g1 == inc_pc(push(g, IJump(0)))
    IN  IF g1.err # "None" THEN g1
        ELSE IF IsAt(g1, split_addr, "Split")
             THEN [g1 EXCEPT !.insts[split_addr + 1].y = g1.pc]
             ELSE [g1 EXCEPT !.err = "FailOr"]

\* Mutant: the jump is patched one past the end of the alternation.
gen_or_tail_past(g, jmp_addr) ==
    IF IsAt(g, jmp_addr, "Jump")
    THEN [g EXCEPT !.insts[jmp_addr + 1].x = g.pc + 1]
    ELSE [g EXCEPT !.err = "FailOr"]

\* Mutant: the jump of an alternation keeps its placeholder.
gen_or_tail_skip(g, jmp_addr) ==
    IF IsAt(g, jmp_addr, "Jump")
    THEN g
    ELSE [g EXCEPT !.err = "FailOr"]

\* The tail of gen_or after gen_expr(e2)? returned Ok: the patch of the jump.
gen_or_tail(g, jmp_addr) ==
    IF IsAt(g, jmp_addr, "Jump")
    THEN [g EXCEPT !.insts[jmp_addr + 1].x = g.pc]
    ELSE [g EXCEPT !.err = "FailOr"]

RECURSIVE gen_expr(_, _)
RECURSIVE gen_seq(_, _)

\* Generator::gen_plus
gen_plus(g, e) ==
    LET start_addr == g.pc
        g1 == gen_expr(g, e)
    IN  IF g1.err # "None" THEN g1 ELSE gen_plus_tail(g1, start_addr)

\* Generator::gen_star
gen_star(g, e) ==
    LET split_addr == g.pc
        g1 == gen_split_head(g)
    IN  IF g1.err # "None" THEN g1
        ELSE LET g2 == gen_expr(g1, e)
             IN  IF g2.err # "None" THEN g2 ELSE gen_star_tail(g2, split_addr)

\* Generator::gen_question
gen_question(g, e) ==
    LET split_addr == g.pc
        g1 == gen_split_head(g)
    IN  IF g1.err # "None" THEN g1
        ELSE LET g2 == gen_expr(g1, e)
             IN  IF g2.err # "None" THEN g2 ELSE gen_question_tail(g2, split_addr)

\* Generator::gen_or
gen_or(g, e1, e2) ==
    LET split_addr == g.pc
        g1 == gen_split_head(g)
    IN  IF g1.err # "None" THEN g1
        ELSE LET g2 == gen_expr(g1, e1)
             IN  IF g2.err # "None" THEN g2
                 ELSE LET jmp_addr == g2.pc
                          g3 == gen_or_mid(g2, split_addr)
                      IN  IF g3.err # "None" THEN g3
                          ELSE LET g4 == gen_expr(g3, e2)
                               IN  IF g4.err # "None" THEN g4
                                   ELSE gen_or_tail(g4, jmp_addr)

\* Generator::gen_seq
gen_seq(g, exprs) ==
    IF exprs = <<>> THEN g
    ELSE LET g1 == gen_expr(g, Head(exprs))
         IN  IF g1.err # "None" THEN g1 ELSE gen_seq(g1, Tail(exprs))

\* Generator::gen_expr.  The match has arms for Char, Plus, Star, Question,
\* Or and Seq only: an Ast::Any, which parse builds for `.`, has no arm, so
\* no code is generated for it and the call cannot return Ok ("NoArm").
gen_expr(g, e) ==
    CASE e.k = "Char" -> gen_char(g, e.c)
      [] e.k = "Plus" -> gen_plus(g, e.e)
      [] e.k = "Star" -> gen_star(g, e.e)
      [] e.k = "Question" -> gen_question(g, e.e)
      [] e.k = "Or" -> gen_or(g, e.e1, e.e2)
      [] e.k = "Seq" -> gen_seq(g, e.es)
      [] OTHER -> [g EXCEPT !.err = "NoArm"]

\* Mutant: gen_code without the final Match.
gen_code_nomatch(g, e) == gen_expr(g, e)

\* Generator::gen_code
gen_code(g, e) ==
    LET g1 == gen_expr(g, e)
    IN  IF g1.err # "None" THEN g1
        ELSE LET g2 == inc_pc(g1)
             IN  IF g2.err # "None" THEN g2 ELSE push(g2, IMatch)

\* fn get_code(ast) -> Result<Vec<Instruction>, CodeGenError>
get_code(e) ==
    LET generator == gen_code(Generator_default, e)
    IN  IF generator.err # "None" THEN Err(generator.err) ELSE Ok(generator.insts)

\* --------------------------------------------------------- evaluator.rs

\* line.get(sp) / insts.get(pc) is Some
InRange(v, i) == i < Len(v)

\* safe_add(&mut pc, &1, ..)? then safe_add(&mut sp, &1, ..)?: the thread
\* after Char or Any consumed a character, or the EvalError returned.
advance_both(p, s) ==
    LET np == checked_add(p, 1)
        ns == checked_add(s, 1)
    IN  IF np.tag = "None" THEN Err("PCOverFlow")
        ELSE IF ns.tag = "None" THEN Err("SPOverFlow")
        ELSE Ok([pc |-> np.n, sp |-> ns.n])

\* safe_add(&mut pc, &1, ..)? alone (Start, End).
advance_pc(p, s) ==
    LET np == checked_add(p, 1)
    IN  IF np.tag = "None" THEN Err("PCOverFlow")
        ELSE Ok([pc |-> np.n, sp |-> s])

\* Mutant: Start and End consume an input element when they succeed.
step_thread_consuming(inst, ln, p, s) ==
    CASE inst.op = "Char" ->
           IF InRange(ln, s) /\ ln[s + 1] = inst.c THEN advance_both(p, s)
           ELSE [tag |-> "Fail"]
      [] inst.op = "Any" ->
           IF InRange(ln, s) THEN advance_both(p, s) ELSE [tag |-> "Fail"]
      [] inst.op = "Start" ->
           IF s = 0 THEN advance_both(p, s) ELSE [tag |-> "Fail"]
      [] inst.op = "End" ->
           IF s = Len(ln) THEN advance_both(p, s) ELSE [tag |-> "Fail"]
      [] inst.op = "Jump" -> Ok([pc |-> inst.x, sp |-> s])

\* What one instruction does to the thread (p, s), common to both modes:
\* Ok(thread) when it goes on, Err(e) for an EvalError, "Fail" when the
\* thread does not match here.  Match, Jump and Split are left to the modes.
step_thread(inst, ln, p, s) ==
    CASE inst.op = "Char" ->
           IF InRange(ln, s) /\ ln[s + 1] = inst.c THEN advance_both(p, s)
           ELSE [tag |-> "Fail"]
      [] inst.op = "Any" ->
           IF InRange(ln, s) THEN advance_both(p, s) ELSE [tag |-> "Fail"]
      [] inst.op = "Start" ->
           IF s = 0 THEN advance_pc(p, s) ELSE [tag |-> "Fail"]
      [] inst.op = "End" ->
           IF s = Len(ln) THEN advance_pc(p, s) ELSE [tag |-> "Fail"]
      [] inst.op = "Jump" -> Ok([pc |-> inst.x, sp |-> s])

VARIABLES
    expr,      \* do_matching's pattern
    line,      \* do_matching's line, as chars
    idx,       \* parse: number of characters consumed by the for loop
    seq,       \* parse: current concatenation buffer
    seq_or,    \* parse: current alternation buffer
    stack,     \* parse: saved (seq, seq_or) pairs, one per open paren
    state,     \* parse: ParseState, "Char" or "Escape"
    ast,       \* result of parse: Idle before the call, None while running,
               \* then Ok(Ast) or Err
    code,      \* result of get_code: None before it ran, then Ok(insts) or Err
    mode,      \* the eval call in progress: "None", "depth" or "width"
    pc,        \* program counter of the running activation / active thread
    sp,        \* input cursor of the running activation / active thread
    calls,     \* eval_depth: the suspended activations, innermost last
    ret,       \* eval_depth: value the innermost activation just returned
    queue,     \* eval_width: the pending (pc, sp) threads
    result     \* what eval returned in each mode ("None" before, "Running")

\* zero-shell (shell.rs): the main thread of Shell::run and the Worker thread
VARIABLES
    shell,     \* Shell::run: "readline", "recv" (after a command was sent),
               \* "recv_eof" (after Ctrl+d), "exited" or "panicked"
    prev,      \* Shell::run: the last exit code received with Continue
    exit_code, \* the value Shell::run passed to exit(), "None" before
    worker_rx, \* the channel to the worker: WorkerMsg in flight, oldest first
    shell_rx,  \* the rendezvous channel to the shell: None or Some(ShellMsg)
    worker,    \* the worker thread: "running" or "panicked"
    exit_val,  \* Worker.exit_val
    jobs       \* Worker.jobs

\* helper.rs: a caller of safe_add, as in tests::test_safe_add
VARIABLES
    dst,       \* the usize the caller passes as &mut dst
    src,       \* the usize passed as src in the last call
    added      \* what each call of safe_add returned, "Ok" or "Err", oldest first

parser_vars == <<idx, seq, seq_or, stack, state, ast>>
eval_vars == <<mode, pc, sp, calls, ret, queue, result>>
regex_vars == <<expr, line, parser_vars, code, eval_vars>>
shell_vars == <<shell, prev, exit_code, worker_rx, shell_rx, worker,
                exit_val, jobs>>
helper_vars == <<dst, src, added>>
vars == <<expr, line, idx, seq, seq_or, stack, state, ast, code,
          mode, pc, sp, calls, ret, queue, result, shell_vars, helper_vars>>

Init ==
    /\ expr = <<>>
    /\ line = <<>>
    /\ idx = 0
    /\ seq = <<>>
    /\ seq_or = <<>>
    /\ stack = <<>>
    /\ state = "Char"
    /\ ast = [tag |-> "Idle"]
    /\ code = None
    /\ mode = "None"
    /\ pc = 0
    /\ sp = 0
    /\ calls = <<>>
    /\ ret = "None"
    /\ queue = <<>>
    /\ result = [depth |-> "None", width |-> "None"]
    /\ shell = "readline"
    /\ prev = 0
    /\ exit_code = "None"
    /\ worker_rx = <<>>
    /\ shell_rx = None
    /\ worker = "running"
    /\ exit_val = 0
    /\ jobs = <<>>
    /\ dst = 0
    /\ src = 0
    /\ added = <<>>

\* do_matching(expr, ..) is called: parse(expr) starts with its locals fresh.
Call ==
    /\ ast.tag = "Idle"
    /\ expr' \in Exprs
    /\ ast' = None
    /\ UNCHANGED <<line, idx, seq, seq_or, stack, state, code, eval_vars, shell_vars, helper_vars>>

\* One iteration of the for loop of parse, on the character c at index idx.
ParseChar ==
    /\ ast.tag = "None"
    /\ idx < Len(expr)
    /\ LET c == expr[idx + 1] IN
       /\ idx' = idx + 1
       /\ IF state = "Char"
          THEN CASE c \in {"+", "*", "?"} ->
                    LET r == parse_plus_star_question(seq,
                                 CASE c = "+" -> "Plus"
                                   [] c = "*" -> "Star"
                                   [] c = "?" -> "Question", idx)
                    IN  IF r.tag = "Ok"
                        THEN seq' = r.v /\ UNCHANGED <<seq_or, stack, state, ast>>
                        ELSE ast' = r /\ UNCHANGED <<seq, seq_or, stack, state>>
                 [] c = "(" ->
                    /\ stack' = Append(stack, [prev |-> seq, prev_or |-> seq_or])
                    /\ seq' = <<>>
                    /\ seq_or' = <<>>
                    /\ UNCHANGED <<state, ast>>
                 [] c = ")" ->
                    IF stack = <<>>
                    THEN /\ ast' = Err(InvalidRightParen(idx))
                         /\ UNCHANGED <<seq, seq_or, stack, state>>
                    ELSE LET closed == close_group(Last(stack), seq, seq_or)
                         IN  /\ stack' = Front(stack)
                             /\ seq' = closed.seq
                             /\ seq_or' = closed.seq_or
                             /\ UNCHANGED <<state, ast>>
                 [] c = "|" ->
                    IF seq = <<>>
                    THEN /\ ast' = Err(NoPrev(idx))
                         /\ UNCHANGED <<seq, seq_or, stack, state>>
                    ELSE /\ seq_or' = Append(seq_or, SeqAst(seq))
                         /\ seq' = <<>>
                         /\ UNCHANGED <<stack, state, ast>>
                 [] c = "\\" ->
                    /\ state' = "Escape"
                    /\ UNCHANGED <<seq, seq_or, stack, ast>>
                 [] c = "." ->
                    /\ seq' = Append(seq, Any)
                    /\ UNCHANGED <<seq_or, stack, state, ast>>
                 [] OTHER ->
                    /\ seq' = Append(seq, Char(c))
                    /\ UNCHANGED <<seq_or, stack, state, ast>>
          ELSE LET r == parse_escape(idx, c) IN
               IF r.tag = "Ok"
               THEN /\ seq' = Append(seq, r.v)
                    /\ state' = "Char"
                    /\ UNCHANGED <<seq_or, stack, ast>>
               ELSE ast' = r /\ UNCHANGED <<seq, seq_or, stack, state>>
    /\ UNCHANGED <<expr, line, code, eval_vars, shell_vars, helper_vars>>

\* Mutant: the end of parse without the check for an unclosed group.
ParseEnd_unclosed ==
    /\ ast.tag = "None"
    /\ idx = Len(expr)
    /\ LET so == IF seq # <<>> THEN Append(seq_or, SeqAst(seq)) ELSE seq_or
           f == fold_or(so)
       IN  ast' = IF f.tag = "Some" THEN Ok(f.v) ELSE Err(Empty)
    /\ UNCHANGED <<expr, line, idx, seq, seq_or, stack, state, code,
                   eval_vars, shell_vars, helper_vars>>

\* Mutant: the end of parse pushes seq onto seq_or even when seq is empty.
ParseEnd_pushes ==
    /\ ast.tag = "None"
    /\ idx = Len(expr)
    /\ IF stack # <<>>
       THEN ast' = Err(NoRightParen)
       ELSE LET so == Append(seq_or, SeqAst(seq))
                f == fold_or(so)
            IN  ast' = IF f.tag = "Some" THEN Ok(f.v) ELSE Err(Empty)
    /\ UNCHANGED <<expr, line, idx, seq, seq_or, stack, state, code,
                   eval_vars, shell_vars, helper_vars>>

\* Mutant: the end of parse rejects a pattern that ends in escape mode.
ParseEnd_strict ==
    /\ ast.tag = "None"
    /\ idx = Len(expr)
    /\ IF state = "Escape"
       THEN ast' = Err(InvalidEscape(idx, ""))
       ELSE IF stack # <<>>
       THEN ast' = Err(NoRightParen)
       ELSE LET so == IF seq # <<>> THEN Append(seq_or, SeqAst(seq)) ELSE seq_or
                f == fold_or(so)
            IN  ast' = IF f.tag = "Some" THEN Ok(f.v) ELSE Err(Empty)
    /\ UNCHANGED <<expr, line, idx, seq, seq_or, stack, state, code,
                   eval_vars, shell_vars, helper_vars>>

\* The end of parse, after the for loop.
ParseEnd ==
    /\ ast.tag = "None"
    /\ idx = Len(expr)
    /\ IF stack # <<>>
       THEN ast' = Err(NoRightParen)
       ELSE LET so == IF seq # <<>> THEN Append(seq_or, SeqAst(seq)) ELSE seq_or
                f == fold_or(so)
            IN  ast' = IF f.tag = "Some" THEN Ok(f.v) ELSE Err(Empty)
    /\ UNCHANGED <<expr, line, idx, seq, seq_or, stack, state, code,
                   eval_vars, shell_vars, helper_vars>>

\* do_matching after parse returned Ok: get_code(&ast)?, then the line is
\* collected into chars.
GetCode ==
    /\ ast.tag = "Ok"
    /\ code.tag = "None"
    /\ code' = get_code(ast.v)
    /\ IF code'.tag = "Ok" THEN line' \in Lines(expr) ELSE line' = line
    /\ UNCHANGED <<expr, parser_vars, eval_vars, shell_vars, helper_vars>>

\* A process whose stack was exhausted has aborted: nothing runs after it.
Aborted == result.depth = "StackOverflow"

\* Mutant: eval is called whatever get_code returned (its `?` is dropped).
EvalCall_unchecked(is_depth) ==
    LET m == IF is_depth THEN "depth" ELSE "width" IN
    /\ code.tag # "None"
    /\ mode = "None"
    /\ result[m] = "None"
    /\ mode' = m
    /\ result' = [result EXCEPT ![m] = "Running"]
    /\ pc' = 0
    /\ sp' = 0
    /\ calls' = <<>>
    /\ ret' = "None"
    /\ queue' = <<>>
    /\ UNCHANGED <<expr, line, idx, seq, seq_or, stack, state, ast, code,
                   shell_vars, helper_vars>>

\* fn eval(insts, line, is_depth): entry of eval_depth(insts, line, 0, 0) or
\* of eval_width(insts, line).  The same code and line are evaluated once in
\* each mode, in either order, as the tests of evaluator.rs do;
\* do_matching(expr, line, is_depth) is the run through EvalCall(is_depth),
\* and what it returns is result.depth or result.width.
EvalCall(is_depth) ==
    LET m == IF is_depth THEN "depth" ELSE "width" IN
    /\ code.tag = "Ok"
    /\ mode = "None"
    /\ result[m] = "None"
    /\ ~Aborted
    /\ mode' = m
    /\ result' = [result EXCEPT ![m] = "Running"]
    /\ pc' = 0
    /\ sp' = 0
    /\ calls' = <<>>
    /\ ret' = "None"
    /\ queue' = <<>>
    /\ UNCHANGED <<expr, line, parser_vars, code, shell_vars, helper_vars>>

\* eval returns v to its caller.
Return(m, v) ==
    /\ result' = [result EXCEPT ![m] = v]
    /\ mode' = "None"

\* A Split reached at (pc, sp) while an activation suspended at the same
\* Split with the same sp is still on the call stack: the recursion repeats
\* itself without end, and the process runs out of stack.
Reentered == \E i \in 1..Len(calls) : calls[i].pc = pc /\ calls[i].sp = sp

\* One iteration of the loop of the innermost activation of eval_depth.
DepthStep ==
    /\ mode = "depth"
    /\ ret = "None"
    /\ IF ~InRange(code.v, pc)
       THEN ret' = "InvalidPC" /\ UNCHANGED <<pc, sp, calls, mode, result>>
       ELSE LET inst == code.v[pc + 1] IN
            CASE inst.op = "Match" ->
                   ret' = "true" /\ UNCHANGED <<pc, sp, calls, mode, result>>
              [] inst.op = "Split" ->
                   IF Reentered
                   THEN /\ Return("depth", "StackOverflow")
                        /\ UNCHANGED <<pc, sp, calls, ret>>
                   ELSE /\ calls' = Append(calls, [pc |-> pc, sp |-> sp,
                                                   addr2 |-> inst.y, second |-> FALSE])
                        /\ pc' = inst.x
                        /\ UNCHANGED <<sp, ret, mode, result>>
              [] OTHER ->
                   LET r == step_thread(inst, line, pc, sp) IN
                   /\ ret' = CASE r.tag = "Ok" -> "None"
                               [] r.tag = "Err" -> r.e
                               [] r.tag = "Fail" -> "false"
                   /\ pc' = IF r.tag = "Ok" THEN r.v.pc ELSE pc
                   /\ sp' = IF r.tag = "Ok" THEN r.v.sp ELSE sp
                   /\ UNCHANGED <<calls, mode, result>>
    /\ UNCHANGED <<expr, line, parser_vars, code, queue, shell_vars, helper_vars>>

\* Mutant: the Split arm evaluates addr2 whenever addr1 did not fail with an
\* error, `||` not short-circuiting.
DepthReturn_both ==
    /\ mode = "depth"
    /\ ret # "None"
    /\ IF calls = <<>>
       THEN Return("depth", ret) /\ UNCHANGED <<pc, sp, calls, ret>>
       ELSE LET top == Last(calls) IN
            IF ret \in {"false", "true"} /\ ~top.second
            THEN /\ calls' = [calls EXCEPT ![Len(calls)].second = TRUE]
                 /\ pc' = top.addr2
                 /\ sp' = top.sp
                 /\ ret' = "None"
                 /\ UNCHANGED <<mode, result>>
            ELSE /\ calls' = Front(calls)
                 /\ UNCHANGED <<pc, sp, ret, mode, result>>
    /\ UNCHANGED <<expr, line, parser_vars, code, queue, shell_vars, helper_vars>>

\* The innermost activation returned ret: to the caller of eval when no
\* activation is suspended, else to the Split arm of the activation above,
\*   if eval_depth(addr1)? || eval_depth(addr2)? { Ok(true) } else { Ok(false) }
DepthReturn ==
    /\ mode = "depth"
    /\ ret # "None"
    /\ IF calls = <<>>
       THEN Return("depth", ret) /\ UNCHANGED <<pc, sp, calls, ret>>
       ELSE LET top == Last(calls) IN
            IF ret = "false" /\ ~top.second
            THEN /\ calls' = [calls EXCEPT ![Len(calls)].second = TRUE]
                 /\ pc' = top.addr2
                 /\ sp' = top.sp
                 /\ ret' = "None"
                 /\ UNCHANGED <<mode, result>>
            ELSE /\ calls' = Front(calls)
                 /\ UNCHANGED <<pc, sp, ret, mode, result>>
    /\ UNCHANGED <<expr, line, parser_vars, code, queue, shell_vars, helper_vars>>

\* Mutant: the active thread is not queued when an equal (pc, sp) already is.
rotate_dedup(q, p, s) ==
    IF q # <<>>
    THEN LET t == [pc |-> p, sp |-> s]
             q1 == IF \E i \in 1..Len(q) : q[i] = t THEN q ELSE Append(q, t)
         IN  [pc |-> Head(q1).pc, sp |-> Head(q1).sp, queue |-> Tail(q1)]
    ELSE [pc |-> p, sp |-> s, queue |-> q]

\* Mutant: the active thread is put at the front of the queue, not the back.
rotate_front(q, p, s) ==
    IF q # <<>>
    THEN LET q1 == <<[pc |-> p, sp |-> s]>> \o q
         IN  [pc |-> Head(q1).pc, sp |-> Head(q1).sp, queue |-> Tail(q1)]
    ELSE [pc |-> p, sp |-> s, queue |-> q]

\* The rotation at the end of the loop of eval_width: with threads pending,
\* the active thread (p, s) goes to the back and the front becomes active.
rotate(q, p, s) ==
    IF q # <<>>
    THEN LET q1 == Append(q, [pc |-> p, sp |-> s])
         IN  [pc |-> Head(q1).pc, sp |-> Head(q1).sp, queue |-> Tail(q1)]
    ELSE [pc |-> p, sp |-> s, queue |-> q]

\* What eval_width does when the active thread does not match at inst:
\* "return" for return Ok(false), else the state before the rotation.
width_fail(inst, ln, q, p, s) ==
    CASE inst.op = "Char" /\ InRange(ln, s) ->
           IF q = <<>> THEN [tag |-> "return"]
           ELSE [tag |-> "go", pc |-> Head(q).pc, sp |-> Head(q).sp, queue |-> Tail(q)]
      [] inst.op = "Char" ->
           IF q = <<>> THEN [tag |-> "return"]
           ELSE [tag |-> "go", pc |-> p, sp |-> s, queue |-> q]
      [] inst.op = "Any" -> [tag |-> "return"]
      [] inst.op \in {"Start", "End"} ->
           IF q = <<>> THEN [tag |-> "return"]
           ELSE [tag |-> "go", pc |-> Head(q).pc, sp |-> Head(q).sp, queue |-> Tail(q)]

\* eval_width is followed while its queue holds at most MaxQueue threads.
QueueCapped ==
    /\ mode = "width"
    /\ InRange(code.v, pc)
    /\ code.v[pc + 1].op = "Split"
    /\ Len(queue) >= MaxQueue

\* One iteration of the loop of eval_width.
WidthStep ==
    /\ mode = "width"
    /\ ~QueueCapped
    /\ IF ~InRange(code.v, pc)
       THEN Return("width", "InvalidPC") /\ UNCHANGED <<pc, sp, queue>>
       ELSE LET inst == code.v[pc + 1] IN
            CASE inst.op = "Match" ->
                   Return("width", "true") /\ UNCHANGED <<pc, sp, queue>>
              [] inst.op = "Split" ->
                   /\ pc' = inst.x
                   /\ queue' = Append(queue, [pc |-> inst.y, sp |-> sp])
                   /\ UNCHANGED <<sp, mode, result>>
              [] OTHER ->
                   LET r == step_thread(inst, line, pc, sp)
                       f == width_fail(inst, line, queue, pc, sp)
                       n == IF r.tag = "Ok" THEN rotate(queue, r.v.pc, r.v.sp)
                            ELSE rotate(f.queue, f.pc, f.sp)
                   IN  CASE r.tag = "Err" ->
                              Return("width", r.e) /\ UNCHANGED <<pc, sp, queue>>
                         [] r.tag = "Fail" /\ f.tag = "return" ->
                              Return("width", "false") /\ UNCHANGED <<pc, sp, queue>>
                         [] OTHER ->
                              /\ pc' = n.pc
                              /\ sp' = n.sp
                              /\ queue' = n.queue
                              /\ UNCHANGED <<mode, result>>
    /\ UNCHANGED <<expr, line, parser_vars, code, calls, ret, shell_vars, helper_vars>>

Next ==
    \/ Call
    \/ ParseChar
    \/ ParseEnd
    \/ GetCode
    \/ \E is_depth \in BOOLEAN : EvalCall(is_depth)
    \/ DepthStep
    \/ DepthReturn
    \/ WidthStep

Spec == Init /\ [][Next]_vars

\* The loops of eval_depth and eval_width run on:
\* a step that can be taken is taken.
FairSpec ==
    Spec /\ WF_vars(DepthStep) /\ WF_vars(DepthReturn) /\ WF_vars(WidthStep)

\* ------------------------------------- evaluator.rs called on a program

\* Longest enumerated program, its final Match included.
MaxProgLen == 3

\* the instructions of a program of n instructions: every kind the evaluator
\* handles, with every target inside the program
ProgInsts(n) ==
    {IChar("a"), IAny, IStart, IEnd, IMatch}
        \cup {IJump(x) : x \in 0..(n - 1)}
        \cup {ISplit(x, y) : x \in 0..(n - 1), y \in 0..(n - 1)}

\* programs with a target one past their end, as a caller may write them
BadTargetPrograms ==
    { <<ISplit(1, 2), IJump(3), IMatch>>,
      <<ISplit(2, 1), IJump(3), IMatch>>,
      <<IChar("a"), ISplit(3, 2), IMatch>> }

Programs ==
    UNION {{Append(p, IMatch) : p \in [1..k -> ProgInsts(k + 1)]} :
               k \in 0..(MaxProgLen - 1)}
        \cup BadTargetPrograms

\* eval(insts, line, is_depth) is public: a caller hands it a program and a
\* line of its own (the tests of evaluator.rs do), no pattern being parsed.
EvalInputs ==
    /\ ast.tag = "Idle"
    /\ code = None
    /\ code' \in {Ok(p) : p \in Programs}
    /\ line' \in Strings(LineAlphabet, MaxLineLen)
    /\ UNCHANGED <<expr, parser_vars, eval_vars, shell_vars, helper_vars>>

EvalNext ==
    \/ EvalInputs
    \/ \E is_depth \in BOOLEAN : EvalCall(is_depth)
    \/ DepthStep
    \/ DepthReturn
    \/ WidthStep

EvalSpec == Init /\ [][EvalNext]_vars

\* -------------------------------------------------- zero-shell/shell.rs

\* Longest enumerated command line, in tokens of CmdTokens.
MaxCmdTokens == 3

I32Max == 2147483647
I32Min == -2147483647 - 1

EXIT == <<"e", "x", "i", "t">>
JOBS == <<"j", "o", "b", "s">>
FG == <<"f", "g">>
CD == <<"c", "d">>
CmdTokens == {EXIT, JOBS, FG, CD, <<" ">>, <<"|">>, <<"5">>, <<"-">>, <<"x">>}

RECURSIVE Concat(_)
Concat(ts) == IF ts = <<>> THEN <<>> ELSE Head(ts) \o Concat(Tail(ts))

\* the lines rl.readline can return
CmdLines == {Concat(ts) : ts \in Strings(CmdTokens, MaxCmdTokens)}

\* enum WorkerMsg
Signal(sig) == [msg |-> "Signal", sig |-> sig, cmd |-> <<>>]
Cmd(ln) == [msg |-> "Cmd", sig |-> "", cmd |-> ln]

\* enum ShellMsg
Continue(n) == [msg |-> "Continue", n |-> n]
Quit(n) == [msg |-> "Quit", n |-> n]

\* str::trim
RECURSIVE trim_start(_)
trim_start(s) == IF s # <<>> /\ Head(s) = " " THEN trim_start(Tail(s)) ELSE s
RECURSIVE trim_end(_)
trim_end(s) == IF s # <<>> /\ Last(s) = " " THEN trim_end(Front(s)) ELSE s
trim(s) == trim_end(trim_start(s))

\* str::split(c): the pieces between the occurrences of c, empty ones kept;
\* cur is the piece being read.
RECURSIVE split_loop(_, _, _)
split_loop(s, c, cur) ==
    IF s = <<>> THEN <<cur>>
    ELSE IF Head(s) = c THEN <<cur>> \o split_loop(Tail(s), c, <<>>)
    ELSE split_loop(Tail(s), c, Append(cur, Head(s)))
split(s, c) == split_loop(s, c, <<>>)

\* str::parse::<i32>() and ::<usize>(): an optional sign (`-` only for a
\* signed type), then at least one decimal digit, the value within the type.
Digits == <<"0", "1", "2", "3", "4", "5", "6", "7", "8", "9">>
DigitVal(c) == (CHOOSE i \in 1..10 : Digits[i] = c) - 1
RECURSIVE Decimal(_)
Decimal(ds) == IF ds = <<>> THEN 0 ELSE 10 * Decimal(Front(ds)) + DigitVal(Last(ds))
parse_int(w, is_signed, lo, hi) ==
    LET has_sign == w # <<>> /\ (w[1] = "+" \/ (is_signed /\ w[1] = "-"))
        ds == IF has_sign THEN Tail(w) ELSE w
        n == IF w # <<>> /\ w[1] = "-" THEN 0 - Decimal(ds) ELSE Decimal(ds)
    IN  IF ds = <<>> \/ \E i \in 1..Len(ds) : \A j \in 1..10 : Digits[j] # ds[i]
        THEN Err("ParseIntError")
        ELSE IF n < lo \/ n > hi THEN Err("ParseIntError") ELSE Ok(n)
parse_i32(w) == parse_int(w, TRUE, I32Min, I32Max)
parse_usize(w) == parse_int(w, FALSE, 0, UsizeMax)

\* the for loop of parse_cmd over the pieces between `|`
RECURSIVE parse_cmd_loop(_, _)
parse_cmd_loop(cmds, res) ==
    IF cmds = <<>> THEN res
    ELSE LET cmd == trim(Head(cmds))
             words == split(cmd, " ")
             cmd_trimmed == [i \in 1..Len(words) |-> trim(words[i])]
         IN  IF cmd = <<>> THEN parse_cmd_loop(Tail(cmds), res)
             ELSE parse_cmd_loop(Tail(cmds),
                      Append(res, [first |-> Head(cmd_trimmed),
                                   rest |-> Tail(cmd_trimmed)]))

\* fn parse_cmd(line): (first, rest) per command of the pipeline
parse_cmd(ln) ==
    LET res == parse_cmd_loop(split(ln, "|"), <<>>)
    IN  IF res = <<>> THEN Err("invalid command") ELSE Ok(res)

\* What a built-in does: the new Worker.exit_val and the message it sends to
\* the shell (None when it returns without sending).
Done(ev, m) == [tag |-> "true", exit_val |-> ev, send |-> m]

\* fn Worker::run_exit(&mut self, args, shell_tx); args.get(1) is args[2]
run_exit(args, ev, jb) ==
    IF jb # <<>> THEN Done(1, Some(Continue(1)))
    ELSE IF Len(args) > 1
    THEN LET n == parse_i32(args[2])
         IN  IF n.tag = "Ok" THEN Done(ev, Some(Quit(n.v)))
             ELSE Done(1, Some(Continue(1)))
    ELSE Done(ev, Some(Quit(ev)))

\* fn Worker::run_jobs
run_jobs(args, ev, jb) == Done(0, Some(Continue(0)))

\* fn Worker::run_fg: a job that is found is resumed and nothing is sent
run_fg(args, ev, jb) ==
    IF Len(args) < 2 THEN Done(1, Some(Continue(1)))
    ELSE LET n == parse_usize(args[2])
         IN  IF n.tag = "Ok" /\ n.v \in DOMAIN jb THEN Done(1, None)
             ELSE Done(1, Some(Continue(1)))

\* fn Worker::run_cd: set_current_dir(..).unwrap() succeeds (cd_ok) or panics
run_cd(args, ev, jb, cd_ok) ==
    IF Len(args) < 2 THEN Done(1, Some(Continue(1)))
    ELSE IF cd_ok THEN Done(0, Some(Continue(0)))
    ELSE [tag |-> "panic"]

\* fn Worker::build_in_cmd: "false" when the command is not a built-in
build_in_cmd(cmd, ev, jb, cd_ok) ==
    IF Len(cmd) > 1 THEN [tag |-> "false"]
    ELSE CASE cmd[1].first = EXIT -> run_exit(cmd[1].rest, ev, jb)
           [] cmd[1].first = JOBS -> run_jobs(cmd[1].rest, ev, jb)
           [] cmd[1].first = FG -> run_fg(cmd[1].rest, ev, jb)
           [] cmd[1].first = CD -> run_cd(cmd[1].rest, ev, jb, cd_ok)
           [] OTHER -> [tag |-> "false"]

\* The process runs: Shell::run neither called exit() nor panicked.
Alive == shell \in {"readline", "recv", "recv_eof"}

\* One iteration of the loop of Shell::run up to the send: readline returned
\* input.  A send to a worker that panicked fails, and its unwrap panics.
Readline ==
    /\ shell = "readline"
    /\ \E input \in {Ok(l) : l \in CmdLines}
                    \cup {Err("Eof"), Err("Interrupted"), Err("Other")} :
         CASE input.tag = "Ok" /\ trim(input.v) = <<>> ->
                UNCHANGED <<shell, worker_rx, exit_code>>
           [] input.tag = "Ok" /\ trim(input.v) # <<>> ->
                IF worker = "panicked"
                THEN shell' = "panicked" /\ UNCHANGED <<worker_rx, exit_code>>
                ELSE /\ worker_rx' = Append(worker_rx, Cmd(input.v))
                     /\ shell' = "recv"
                     /\ UNCHANGED exit_code
           [] input.tag = "Err" /\ input.e = "Eof" ->
                IF worker = "panicked"
                THEN shell' = "panicked" /\ UNCHANGED <<worker_rx, exit_code>>
                ELSE /\ worker_rx' = Append(worker_rx, Cmd(EXIT))
                     /\ shell' = "recv_eof"
                     /\ UNCHANGED exit_code
           [] input.tag = "Err" /\ input.e = "Interrupted" ->
                UNCHANGED <<shell, worker_rx, exit_code>>
           [] OTHER ->
                /\ exit_code' = 1
                /\ shell' = "exited"
                /\ UNCHANGED worker_rx
    /\ UNCHANGED <<prev, shell_rx, worker, exit_val, jobs, regex_vars, helper_vars>>

\* shell_rx.recv().unwrap() in Shell::run and the match on the message; with
\* the worker gone recv fails and the unwrap panics.
ShellRecv ==
    /\ shell \in {"recv", "recv_eof"}
    /\ IF shell_rx # None
       THEN /\ shell_rx' = None
            /\ CASE shell_rx.v.msg = "Quit" ->
                      /\ exit_code' = shell_rx.v.n
                      /\ shell' = "exited"
                      /\ UNCHANGED prev
                 [] shell_rx.v.msg = "Continue" /\ shell = "recv" ->
                      /\ prev' = shell_rx.v.n
                      /\ shell' = "readline"
                      /\ UNCHANGED exit_code
                 [] OTHER ->
                      shell' = "panicked" /\ UNCHANGED <<prev, exit_code>>
       ELSE /\ worker = "panicked"
            /\ shell' = "panicked"
            /\ UNCHANGED <<prev, exit_code, shell_rx>>
    /\ UNCHANGED <<worker_rx, worker, exit_val, jobs, regex_vars, helper_vars>>

\* The thread of spawn_sig_handler forwards a signal to the worker.  The
\* worker ends at the first signal it receives, so one is kept in flight.
SigHandler ==
    /\ Alive
    /\ worker = "running"
    /\ \A i \in 1..Len(worker_rx) : worker_rx[i].msg # "Signal"
    /\ \E sig \in {"SIGINT", "SIGTSTP", "SIGCHLD"} :
         worker_rx' = Append(worker_rx, Signal(sig))
    /\ UNCHANGED <<shell, prev, exit_code, shell_rx, worker, exit_val, jobs,
                   regex_vars, helper_vars>>

\* One iteration of `for msg in worker_rx.iter()` in Worker::spawn; todo!()
\* panics, and so does the unwrap in run_cd.
WorkerLoop ==
    /\ Alive
    /\ worker = "running"
    /\ worker_rx # <<>>
    /\ shell_rx = None
    /\ worker_rx' = Tail(worker_rx)
    /\ LET msg == Head(worker_rx)
           r == parse_cmd(msg.cmd)
       IN  \E cd_ok \in BOOLEAN :
             LET b == build_in_cmd(r.v, exit_val, jobs, cd_ok) IN
             CASE msg.msg = "Signal" ->
                    worker' = "panicked" /\ UNCHANGED <<shell_rx, exit_val>>
               [] msg.msg = "Cmd" /\ r.tag = "Err" ->
                    /\ shell_rx' = Some(Continue(exit_val))
                    /\ UNCHANGED <<worker, exit_val>>
               [] msg.msg = "Cmd" /\ r.tag = "Ok" /\ b.tag = "true" ->
                    /\ exit_val' = b.exit_val
                    /\ shell_rx' = b.send
                    /\ UNCHANGED worker
               [] OTHER ->
                    worker' = "panicked" /\ UNCHANGED <<shell_rx, exit_val>>
    /\ UNCHANGED <<shell, prev, exit_code, jobs, regex_vars, helper_vars>>

ShellNext ==
    \/ Readline
    \/ ShellRecv
    \/ SigHandler
    \/ WorkerLoop

ShellSpec == Init /\ [][ShellNext]_vars

\* ------------------------------------------------------------ helper.rs
\* safe_add called on its own, as tests::test_safe_add does.

\* operands are taken up to MaxAddend from 0 and from usize::MAX
MaxAddend == 2
\* safe_add is called at most MaxAdds times on one dst
MaxAdds == 2

\* let mut n = 10; ... let mut n = !0;
Dsts == (0..MaxAddend) \cup {10} \cup ((UsizeMax - MaxAddend)..UsizeMax)
\* &20, &1
Srcs == (0..MaxAddend) \cup {20, UsizeMax}

\* let mut n = ..: the caller's variable gets its first value
LetDst ==
    /\ added = <<>>
    /\ dst = 0
    /\ src = 0
    /\ dst' \in Dsts
    /\ UNCHANGED <<src, added, regex_vars, shell_vars>>

\* safe_add(&mut n, &s, || ())
SafeAddCall ==
    /\ Len(added) < MaxAdds
    /\ \E s \in Srcs :
         LET r == safe_add(dst, s, "Err")
         IN  /\ src' = s
             /\ dst' = r.dst
             /\ added' = Append(added, r.ret)
    /\ UNCHANGED <<regex_vars, shell_vars>>

AddNext ==
    \/ LetDst
    \/ SafeAddCall

AddSpec == Init /\ [][AddNext]_vars

\* ------------------------------------------------------------ vocabulary

Returned(m) == result[m] \notin {"None", "Running"}
ReturnedBool(m) == result[m] \in {"true", "false"}
\* do_matching(expr, line, is_depth) returned Ok(b)
MatchingOk(m, b) == ast.tag = "Ok" /\ code.tag = "Ok" /\ result[m] = b

ABC_Q == <<"a", "b", "c", "?">>
AB_OR_CD_PLUS == <<"(", "a", "b", "|", "c", "d", ")", "+">>

\* The language of an Ast, read off the meaning of its nodes: the set of
\* positions j such that ln[i..j) is matched by e.
RECURSIVE Ends(_, _, _)
RECURSIVE EndsSeq(_, _, _)
RECURSIVE EndsRep(_, _, _)
Ends(e, ln, i) ==
    CASE e.k = "Char" -> IF i < Len(ln) /\ ln[i + 1] = e.c THEN {i + 1} ELSE {}
      [] e.k = "Any" -> IF i < Len(ln) THEN {i + 1} ELSE {}
      [] e.k = "Seq" -> EndsSeq(e.es, ln, {i})
      [] e.k = "Or" -> Ends(e.e1, ln, i) \cup Ends(e.e2, ln, i)
      [] e.k = "Question" -> {i} \cup Ends(e.e, ln, i)
      [] e.k = "Star" -> EndsRep(e.e, ln, {i})
      [] e.k = "Plus" -> EndsRep(e.e, ln, Ends(e.e, ln, i))
\* concatenation: each child continues from where the previous ones ended
EndsSeq(es, ln, from) ==
    IF es = <<>> THEN from
    ELSE EndsSeq(Tail(es), ln, UNION {Ends(Head(es), ln, j) : j \in from})
\* repetition: the positions reached from `from` by zero or more rounds of e
EndsRep(e, ln, from) ==
    LET more == from \cup UNION {Ends(e, ln, j) : j \in from}
    IN  IF more = from THEN from ELSE EndsRep(e, ln, more)

\* Some prefix of ln belongs to the language of e.
PrefixInLanguage(e, ln) == Ends(e, ln, 0) # {}

\* ---------------------------------------------------------------- claims

\* C1: for every pattern parse accepts and get_code compiles, and every
\* line, eval in depth-first mode and eval in breadth-first mode return the
\* same result.
C1_ModesAgree ==
    Returned("depth") /\ Returned("width") => result.depth = result.width

\* C2: whenever do_matching(expr, line, true) returns Ok(b), b is true exactly
\* when some prefix of line (from position 0, possibly shorter than line) is
\* in the language of the Ast of expr.
C2_DepthMatchesLanguage ==
    ast.tag = "Ok" /\ code.tag = "Ok" /\ ReturnedBool("depth")
        => (result.depth = "true" <=> PrefixInLanguage(ast.v, line))

\* "abc" matches "abcde": an anchored match that does not consume the line.
C2_Witness ==
    /\ expr = <<"a", "b", "c">>
    /\ line = <<"a", "b", "c", "d", "e">>
    /\ MatchingOk("depth", "true")

\* C3: depth-first evaluation always terminates: eval_depth started at
\* (0, 0) returns Ok(true), Ok(false) or an EvalError, for every generated
\* program (nested quantifiers included) and every line; it never recurses
\* without end.
C3_DepthTerminates == result.depth # "StackOverflow"

\* C4: breadth-first evaluation always terminates: once eval_width runs it
\* eventually returns; the scheduler never rotates threads forever.  (Runs
\* whose queue outgrows MaxQueue are not followed further.)
C4_WidthTerminates ==
    [](result.width = "Running" => <>(Returned("width") \/ QueueCapped))

\* every Jump target and both Split targets index an instruction, and the
\* last instruction is Match
WellFormed(insts) ==
    /\ Len(insts) > 0
    /\ Last(insts).op = "Match"
    /\ \A i \in 1..Len(insts) :
         /\ insts[i].op = "Jump" => insts[i].x < Len(insts)
         /\ insts[i].op = "Split" => insts[i].x < Len(insts) /\ insts[i].y < Len(insts)

\* C5: the instruction sequence get_code returns is well-formed: every Jump
\* target and both targets of every Split are below the program length, and
\* the last instruction is Match.
C5_CodeWellFormed == code.tag = "Ok" => WellFormed(code.v)

\* a program with a backpatched Split and a backpatched Jump
C5_Witness ==
    /\ code.tag = "Ok"
    /\ \E i, j \in 1..Len(code.v) :
         code.v[i].op = "Split" /\ code.v[j].op = "Jump" /\ code.v[j].x > j

\* C6: get_code returns Ok for every Ast parse can return: every node kind
\* the parser produces is handled, and no backpatch error is returned.
C6_GetCodeOk == code.tag # "Err"

\* C7: do_matching runs parse, get_code and eval in that order and stops at
\* the first failure: get_code has not run unless parse returned Ok, eval has
\* not run unless get_code returned Ok, and Ok(bool) is returned only when
\* all three succeeded; "+b", "*b", "|b", "?b" fail in parse.
C7_StagesInOrder ==
    /\ ast.tag # "Ok" => code.tag = "None"
    /\ code.tag # "Ok" =>
         /\ mode = "None"
         /\ result = [depth |-> "None", width |-> "None"]
    /\ \A m \in {"depth", "width"} :
         result[m] # "None" => ast.tag = "Ok" /\ code.tag = "Ok"
    /\ /\ Len(expr) = 2
       /\ expr[1] \in {"+", "*", "|", "?"}
       /\ expr[2] = "b"
       /\ ast.tag # "None"
       => ast.tag = "Err"

\* get_code failed after parse succeeded, and eval did not run
C7_Witness ==
    /\ ast.tag = "Ok"
    /\ code.tag = "Err"
    /\ mode = "None"
    /\ result = [depth |-> "None", width |-> "None"]

\* C8 as the specification states it: match("abc?", "acd", true) and
\* match("abc?", "abcd", true) both return true.
C8_Original ==
    /\ expr = ABC_Q
    /\ line \in {<<"a", "c", "d">>, <<"a", "b", "c", "d">>}
    /\ Returned("depth")
    => MatchingOk("depth", "true")

\* C8 amended: match("abc?", "acd", true) returns false (`?` makes only `c`
\* optional, `b` is required) and match("abc?", "abcd", true) returns true.
C8_Amended ==
    /\ expr = ABC_Q /\ line = <<"a", "c", "d">> /\ Returned("depth")
         => MatchingOk("depth", "false")
    /\ expr = ABC_Q /\ line = <<"a", "b", "c", "d">> /\ Returned("depth")
         => MatchingOk("depth", "true")

C8_Witness ==
    expr = ABC_Q /\ line = <<"a", "c", "d">> /\ MatchingOk("depth", "false")

\* parse is about to read a quantifier in plain mode with a sub-expression
\* before it
AtQuantifier ==
    /\ ast.tag = "None"
    /\ state = "Char"
    /\ idx < Len(expr)
    /\ expr[idx + 1] \in {"+", "*", "?"}
    /\ seq # <<>>

QuantifierKind(c) ==
    CASE c = "+" -> "Plus" [] c = "*" -> "Star" [] c = "?" -> "Question"

\* C9: a postfix quantifier wraps only the sub-expression immediately before
\* it (the last element of seq) and leaves the rest of seq alone; stacked
\* quantifiers nest in reading order ("b?+*" is Seq[Star(Plus(Question(b)))]);
\* do_matching("abc?", "abcd", true) is true and
\* do_matching("abc?", "acd", true) is false.
C9_QuantifierWrapsLast ==
    /\ [][AtQuantifier /\ idx' = idx + 1 =>
            /\ Len(seq') = Len(seq)
            /\ Front(seq') = Front(seq)
            /\ Last(seq').k = QuantifierKind(expr[idx + 1])
            /\ Last(seq').e = Last(seq)]_vars
    /\ [](/\ expr = <<"b", "?", "+", "*">> /\ ast.tag \notin {"Idle", "None"}
            => ast = Ok(SeqAst(<<Star(Plus(Question(Char("b"))))>>))
          /\ expr = ABC_Q /\ ast.tag \notin {"Idle", "None"}
            => ast = Ok(SeqAst(<<Char("a"), Char("b"), Question(Char("c"))>>))
          /\ expr = ABC_Q /\ line = <<"a", "b", "c", "d">> /\ Returned("depth")
            => MatchingOk("depth", "true")
          /\ expr = ABC_Q /\ line = <<"a", "c", "d">> /\ Returned("depth")
            => MatchingOk("depth", "false"))

\* the three stacked quantifiers of "b?+*" have been read
C9_Witness ==
    /\ expr = <<"b", "?", "+", "*">>
    /\ idx = 4
    /\ seq = <<Star(Plus(Question(Char("b"))))>>

\* the code of a Plus: the code of its child, then Split(entry, next)
PlusLowered(e, at) ==
    LET g0 == [pc |-> at, insts |-> [i \in 1..at |-> IMatch], err |-> "None"]
        g1 == gen_expr(g0, e.e)
        g2 == gen_expr(g0, e)
    IN  g2.err = "None" =>
          /\ g1.err = "None"
          /\ g2.insts = Append(g1.insts, ISplit(at, Len(g1.insts) + 1))
          /\ g2.pc = Len(g2.insts)

RECURSIVE SubAsts(_)
SubAsts(e) ==
    {e} \cup
    CASE e.k \in {"Plus", "Star", "Question"} -> SubAsts(e.e)
      [] e.k = "Or" -> SubAsts(e.e1) \cup SubAsts(e.e2)
      [] e.k = "Seq" -> UNION {SubAsts(e.es[i]) : i \in 1..Len(e.es)}
      [] OTHER -> {}

\* C10: Plus(child) is lowered to the code of child followed by
\* Split(entry, next); in both evaluation modes "a+" does not match "b", and
\* "(ab|cd)+" matches "abcd" but not the empty line.
C10_PlusLowering ==
    /\ [](ast.tag = "Ok" =>
            \A e \in SubAsts(ast.v) :
                e.k = "Plus" => \A at \in 0..1 : PlusLowered(e, at))
    /\ \A m \in {"depth", "width"} :
         /\ [](expr = <<"a", "+">> /\ line = <<"b">> /\ result[m] = "Running"
                 => <>(result[m] = "false"))
         /\ [](expr = AB_OR_CD_PLUS /\ line = <<"a", "b", "c", "d">>
                 /\ result[m] = "Running" => <>(result[m] = "true"))
         /\ [](expr = AB_OR_CD_PLUS /\ line = <<>> /\ result[m] = "Running"
                 => <>(result[m] = "false"))

\* C11: in both evaluation modes `.` consumes exactly one input element,
\* whatever it is, and fails at end of input: do_matching runs "a." through
\* parse, get_code and eval, and returns true on "ab" and false on "a".
C11_AnyConsumesOne ==
    expr = <<"a", ".">> /\ ast.tag = "Ok" /\ code.tag # "None" =>
        /\ code.tag = "Ok"
        /\ \A m \in {"depth", "width"} :
             /\ line = <<"a", "b">> /\ Returned(m) => result[m] = "true"
             /\ line = <<"a">> /\ Returned(m) => result[m] = "false"

\* C12: through parse, get_code and eval, `^` and `$` are zero-width
\* assertions and not literal characters: in both modes "^abc(^def|123)"
\* matches "abc123" and not "abcdef", and "abc(def|123$)+" matches "abc123"
\* and not "abc123def".
C12_AnchorsAssert ==
    \A m \in {"depth", "width"} :
        /\ expr = START_PATTERN /\ Returned(m) =>
             result[m] = IF line = <<"a", "b", "c", "1", "2", "3">>
                         THEN "true" ELSE "false"
        /\ expr = END_PATTERN /\ Returned(m) =>
             result[m] = IF line = <<"a", "b", "c", "1", "2", "3">>
                         THEN "true" ELSE "false"
        /\ expr \in {START_PATTERN, END_PATTERN} /\ ast.tag = "Ok" =>
             \A e \in SubAsts(ast.v) : e.k = "Char" => e.c \notin {"^", "$"}

\* The character at index i (0-based) of e is read in plain mode: it is not
\* the character that follows a backslash read in plain mode.
RECURSIVE PlainAt(_, _)
PlainAt(e, i) == IF i = 0 THEN TRUE ELSE ~(e[i] = "\\" /\ PlainAt(e, i - 1))

\* how many of the first n characters of e are the character c read in
\* plain mode
PlainCount(e, n, c) ==
    Cardinality({i \in 0..(n - 1) : e[i + 1] = c /\ PlainAt(e, i)})

ParseRunning == ast.tag = "None"
ParseReturned == ast.tag \in {"Ok", "Err"}

\* C13: while parse runs, the depth of stack is the number of `(` read minus
\* the number of `)` read (as group delimiters, in plain mode); a `)` read at
\* index i with an empty stack fails with InvalidRightParen(i); a non-empty
\* stack at the end of the pattern fails with NoRightParen; "abc)" gives
\* InvalidRightParen(3) and "(abc(123)" gives NoRightParen.
C13_ParenBalance ==
    /\ [](ParseRunning =>
            Len(stack) = PlainCount(expr, idx, "(") - PlainCount(expr, idx, ")"))
    /\ [][/\ ParseRunning /\ state = "Char" /\ idx < Len(expr)
          /\ expr[idx + 1] = ")" /\ stack = <<>>
          => ast' = Err(InvalidRightParen(idx))]_vars
    /\ [][ParseRunning /\ idx = Len(expr) /\ stack # <<>>
          => ast' = Err(NoRightParen)]_vars
    /\ [](/\ expr = <<"a", "b", "c", ")">> /\ ParseReturned
            => ast = Err(InvalidRightParen(3))
          /\ expr = <<"(", "a", "b", "c", "(", "1", "2", "3", ")">> /\ ParseReturned
            => ast = Err(NoRightParen))

\* "(abc(123)" was read to its end with the outer group still open
C13_Witness ==
    /\ expr = <<"(", "a", "b", "c", "(", "1", "2", "3", ")">>
    /\ Len(stack) = 1
    /\ ast = Err(NoRightParen)

\* C14: a quantifier or a `|` read in plain mode at index i while seq is
\* empty fails with NoPrev(i), i counting the characters read before it; seq
\* is empty at the start of the pattern, directly after `(` and directly
\* after `|`.
C14_NoPrev ==
    /\ [][/\ ParseRunning /\ state = "Char" /\ idx < Len(expr)
          /\ expr[idx + 1] \in {"+", "*", "?", "|"} /\ seq = <<>>
          => ast' = Err(NoPrev(idx))]_vars
    /\ [](/\ ParseRunning
          /\ \/ idx = 0
             \/ idx > 0 /\ expr[idx] \in {"(", "|"} /\ PlainAt(expr, idx - 1)
          => seq = <<>>)

\* a quantifier directly after `(` that is not the first character
C14_Witness ==
    /\ Len(expr) >= 3
    /\ expr[2] = "("
    /\ expr[3] \in {"+", "*", "?"}
    /\ ast = Err(NoPrev(2))

\* the characters that may follow a backslash
Escapable == {"\\", "(", ")", "|", "+", "*", "?", "."}

\* C15: escape mode lasts exactly one character: it is entered by a backslash
\* read in plain mode, and the next character c at index i is appended as
\* Char(c) with a return to plain mode when c is one of \ ( ) | + * ? . and
\* fails with InvalidEscape(i, c) otherwise; the escaped character touches
\* neither seq_or nor stack nor the elements already in seq; "1\?\*23"
\* parses to Seq[Char 1, Char ?, Char *, Char 2, Char 3].
C15_EscapeOneChar ==
    /\ [](ParseRunning =>
            (state = "Escape" <=>
                idx > 0 /\ expr[idx] = "\\" /\ PlainAt(expr, idx - 1)))
    /\ [][ParseRunning /\ state = "Escape" /\ idx < Len(expr) =>
            IF expr[idx + 1] \in Escapable
            THEN /\ seq' = Append(seq, Char(expr[idx + 1]))
                 /\ state' = "Char"
                 /\ ParseRunning'
                 /\ UNCHANGED <<seq_or, stack>>
            ELSE ast' = Err(InvalidEscape(idx, expr[idx + 1]))]_vars
    /\ [](expr = ESCAPED_PATTERN /\ ParseReturned =>
            ast = Ok(SeqAst(<<Char("1"), Char("?"), Char("*"),
                              Char("2"), Char("3")>>)))

\* an escaped quantifier was appended as a literal after another element
C15_Witness ==
    /\ expr = ESCAPED_PATTERN
    /\ idx = 3
    /\ state = "Char"
    /\ seq = <<Char("1"), Char("?")>>

\* C16: no Ast returned by parse contains a Seq without children, at the
\* root or below; a pattern that contributes no element (the empty pattern,
\* or only empty groups) is rejected with ParseError::Empty.
C16_NoEmptySeq ==
    /\ ast.tag = "Ok" =>
         \A e \in SubAsts(ast.v) : e.k = "Seq" => e.es # <<>>
    /\ /\ ParseReturned
       /\ \A i \in 1..Len(expr) : expr[i] \in {"(", ")"}
       /\ ast.tag = "Err" => ast.e.e \notin {"InvalidRightParen", "NoRightParen"}
       => ast = Err(Empty)

\* "()()": two empty groups, balanced, and nothing to return
C16_Witness ==
    /\ expr = <<"(", ")", "(", ")">>
    /\ ast = Err(Empty)

\* the worker is about to receive the command line `exit N`
AtExitLine ==
    /\ worker = "running"
    /\ worker_rx # <<>>
    /\ Head(worker_rx).msg = "Cmd"
    /\ Len(Head(worker_rx).cmd) > 5
    /\ SubSeq(Head(worker_rx).cmd, 1, 5) = EXIT \o <<" ">>

\* the N of `exit N`, parsed
ExitArg == parse_i32(SubSeq(Head(worker_rx).cmd, 6, Len(Head(worker_rx).cmd)))

\* C17: when the worker receives the command line `exit N`, N parsing as an
\* i32, with an empty job table, it sends ShellMsg::Quit(N); and the shell
\* that receives Quit(N) exits with code N.
C17_ExitCode ==
    /\ [][/\ AtExitLine /\ ExitArg.tag = "Ok" /\ jobs = <<>>
          /\ worker_rx' = Tail(worker_rx)
          => shell_rx' = Some(Quit(ExitArg.v))]_vars
    /\ [][shell_rx # None /\ shell_rx.v.msg = "Quit" /\ shell_rx' = None
          => exit_code' = shell_rx.v.n /\ shell' = "exited"]_vars

\* the threads of eval_width: the active one, then the queue front to back
Threads == <<[pc |-> pc, sp |-> sp]>> \o queue

\* eval_width is about to execute the instruction op
WidthAt(op) ==
    /\ mode = "width"
    /\ InRange(code.v, pc)
    /\ code.v[pc + 1].op = op

\* C18: in breadth-first mode, when the active thread executes Char(c) and
\* the input element at sp differs from c or sp is at end of input, the
\* thread is discarded: with an empty queue eval_width returns Ok(false),
\* otherwise the queued threads go on (the front popped, then the rotation
\* of the end of the loop) and the failed (pc, sp) is not put back.
C18_CharFailDiscards ==
    [][/\ WidthAt("Char")
       /\ ~(InRange(line, sp) /\ line[sp + 1] = code.v[pc + 1].c)
       => IF queue = <<>>
          THEN result'.width = "false"
          ELSE /\ result'.width = "Running"
               /\ Threads' = Append(Tail(queue), Head(queue))]_vars

\* C19: eval_width returns Ok(false) only in a state whose queue is empty;
\* when the active thread executes Any at end of input while threads are
\* queued, evaluation goes on with the queued threads.
C19_FalseOnlyWhenQueueEmpty ==
    /\ [][result.width = "Running" /\ result'.width = "false"
          => queue = <<>>]_vars
    /\ [][WidthAt("Any") /\ ~InRange(line, sp) /\ queue # <<>>
          => /\ result'.width = "Running"
             /\ Threads' = Append(Tail(queue), Head(queue))]_vars

\* the instruction eval_width is about to execute
WidthInst == code.v[pc + 1]

\* the active thread matches at WidthInst
Succeeds ==
    CASE WidthInst.op = "Char" -> InRange(line, sp) /\ line[sp + 1] = WidthInst.c
      [] WidthInst.op = "Any" -> InRange(line, sp)
      [] WidthInst.op = "Start" -> sp = 0
      [] WidthInst.op = "End" -> sp = Len(line)
      [] OTHER -> TRUE

\* the active thread after WidthInst, when it matches
Advanced ==
    CASE WidthInst.op \in {"Char", "Any"} -> [pc |-> pc + 1, sp |-> sp + 1]
      [] WidthInst.op \in {"Start", "End"} -> [pc |-> pc + 1, sp |-> sp]
      [] WidthInst.op = "Jump" -> [pc |-> WidthInst.x, sp |-> sp]

\* C20: breadth-first scheduling is FIFO round-robin.  Split(a, b) sets the
\* active pc to a, appends (b, sp) to the back of the queue and does not
\* rotate.  After any other instruction that does not end the evaluation the
\* active state goes to the back and the front becomes active (nothing moves
\* when the queue is empty): every queued thread moves up by one place, none
\* is dropped and none is duplicated.
C20_FifoRoundRobin ==
    /\ [][WidthAt("Split") =>
            /\ pc' = WidthInst.x
            /\ sp' = sp
            /\ queue' = Append(queue, [pc |-> WidthInst.y, sp |-> sp])
            /\ result' = result]_vars
    /\ [][/\ mode = "width" /\ InRange(code.v, pc)
          /\ WidthInst.op \notin {"Split", "Match"}
          /\ Succeeds
          => /\ Threads' = Append(queue, Advanced)
             /\ result' = result]_vars
    /\ [][/\ mode = "width" /\ InRange(code.v, pc)
          /\ WidthInst.op \notin {"Split", "Match"}
          /\ ~Succeeds
          /\ result'.width = "Running"
          => /\ queue # <<>>
             /\ Threads' \in {Append(Tail(queue), Head(queue)),
                              Append(queue, [pc |-> pc, sp |-> sp])}]_vars

\* a thread that consumed a character went to the back of the queue, behind
\* a thread that still waits for its turn
C20_Witness ==
    /\ mode = "width"
    /\ Len(queue) >= 2
    /\ queue[Len(queue)].sp > 0
    /\ queue[1].sp = 0

\* eval_depth is about to execute the instruction op in its innermost
\* activation
DepthAt(op) ==
    /\ mode = "depth"
    /\ ret = "None"
    /\ InRange(code.v, pc)
    /\ code.v[pc + 1].op = op

\* the innermost activation returned to the Split arm of the one above
ReturnedToSplit == mode = "depth" /\ ret # "None" /\ calls # <<>>

\* C21: in depth-first mode Split(a, b) reached at sp first evaluates from
\* (a, sp); the evaluation from (b, sp) starts only after the first returned
\* Ok(false), at the sp the Split was reached with; when the first returns
\* Ok(true) or an EvalError that value is returned and the second is not
\* evaluated; the second's value is the Split's value otherwise.
C21_DepthSplitOrder ==
    /\ [][DepthAt("Split") =>
            \/ result'.depth = "StackOverflow"
            \/ /\ pc' = code.v[pc + 1].x
               /\ sp' = sp
               /\ ret' = "None"
               /\ calls' = Append(calls, [pc |-> pc, sp |-> sp,
                                          addr2 |-> code.v[pc + 1].y,
                                          second |-> FALSE])]_vars
    /\ [][ReturnedToSplit /\ ret = "false" /\ ~Last(calls).second =>
            /\ pc' = Last(calls).addr2
            /\ sp' = Last(calls).sp
            /\ ret' = "None"
            /\ Len(calls') = Len(calls)
            /\ Last(calls').second]_vars
    /\ [][ReturnedToSplit /\ (ret # "false" \/ Last(calls).second) =>
            /\ calls' = Front(calls)
            /\ ret' = ret]_vars
    /\ [][mode = "depth" /\ calls' # <<>> /\ Last(calls').second
          /\ Len(calls') >= Len(calls)
          /\ ~(calls # <<>> /\ Len(calls') = Len(calls) /\ Last(calls).second)
          => ret = "false"]_vars

\* the second branch of a Split reached after a character was consumed is
\* running, at the sp of the Split
C21_Witness ==
    /\ mode = "depth"
    /\ calls # <<>>
    /\ Last(calls).second
    /\ ret = "None"
    /\ pc = Last(calls).addr2
    /\ sp = Last(calls).sp
    /\ sp > 0

\* the assertion op holds at the cursor s of the line ln
Asserted(op, ln, s) == IF op = "Start" THEN s = 0 ELSE s = Len(ln)

\* C22: Start and End are zero-width in both modes: Start succeeds only at
\* sp = 0 and End only at sp = length of the line; on success pc advances by
\* one and sp stays; on failure no input is consumed, depth-first returns
\* Ok(false) for the branch, breadth-first goes on with the queued threads
\* or returns Ok(false) when the queue is empty.
C22_AnchorsZeroWidth ==
    /\ [][\A op \in {"Start", "End"} : DepthAt(op) =>
            /\ sp' = sp
            /\ calls' = calls
            /\ IF Asserted(op, line, sp)
               THEN pc' = pc + 1 /\ ret' = "None"
               ELSE ret' = "false"]_vars
    /\ [][\A op \in {"Start", "End"} : WidthAt(op) =>
            IF Asserted(op, line, sp)
            THEN /\ Threads' = Append(queue, [pc |-> pc + 1, sp |-> sp])
                 /\ result' = result
            ELSE IF queue = <<>>
            THEN result'.width = "false"
            ELSE /\ result'.width = "Running"
                 /\ Threads' = Append(Tail(queue), Head(queue))]_vars

\* depth-first: a Start reached after a character was consumed has failed
\* its branch
C22_Witness ==
    /\ mode = "depth"
    /\ ret = "false"
    /\ InRange(code.v, pc)
    /\ code.v[pc + 1].op = "Start"
    /\ sp > 0

\* get_code has just returned and eval has not been called yet; ast and code
\* do not change afterwards
Generated ==
    /\ code.tag # "None"
    /\ mode = "None"
    /\ result = [depth |-> "None", width |-> "None"]

\* a generator that has emitted `at` instructions
GeneratorAt(at) == [pc |-> at, insts |-> [i \in 1..at |-> IMatch], err |-> "None"]

\* the instructions gen_expr emits for e when called at address `at`
CodeAt(e, at) ==
    LET g == gen_expr(GeneratorAt(at), e)
    IN  SubSeq(g.insts, at + 1, Len(g.insts))

\* the code of a Star at s: Split(s+1, e), the code of its child at s+1,
\* Jump(s), with e the address after the Jump
StarLowered(e, at) ==
    LET g == gen_expr(GeneratorAt(at), e)
        child == CodeAt(e.e, at + 1)
    IN  g.err = "None" =>
          /\ gen_expr(GeneratorAt(at + 1), e.e).err = "None"
          /\ CodeAt(e, at) = <<ISplit(at + 1, at + Len(child) + 2)>> \o child
                                 \o <<IJump(at)>>
          /\ g.pc = Len(g.insts)

\* a Star whose child holds a Star, a Question or an Or
NestedStar(e) ==
    /\ e.k = "Star"
    /\ \E c \in SubAsts(e.e) : c.k \in {"Star", "Question", "Or"}

\* C23: Star(child) lowered at address s is exactly Split(s+1, e) at s, the
\* code of child from s+1, then Jump(s), e being the address after the Jump,
\* for every child; "a*" is [Split(1,3), Char a, Jump 0] (and the Match).
C23_StarLowering ==
    /\ Generated =>
         \A e \in SubAsts(ast.v) :
             e.k = "Star" => \A at \in 0..2 : StarLowered(e, at)
    /\ expr = <<"a", "*">> /\ code.tag # "None" =>
         code = Ok(<<ISplit(1, 3), IChar("a"), IJump(0), IMatch>>)

\* a Star over an alternation was compiled
C23_Witness ==
    /\ code.tag = "Ok"
    /\ \E e \in SubAsts(ast.v) :
         NestedStar(e) /\ \E c \in SubAsts(e.e) : c.k = "Or"

\* the code of an Or at s: Split(s+1, r), the code of left, Jump(e), the
\* code of right at r, with e the address after right
OrLowered(e, at) ==
    LET g == gen_expr(GeneratorAt(at), e)
        left == CodeAt(e.e1, at + 1)
        r == at + Len(left) + 2
        right == CodeAt(e.e2, r)
    IN  g.err = "None" =>
          /\ gen_expr(GeneratorAt(at + 1), e.e1).err = "None"
          /\ gen_expr(GeneratorAt(r), e.e2).err = "None"
          /\ CodeAt(e, at) = <<ISplit(at + 1, r)>> \o left
                                 \o <<IJump(r + Len(right))>> \o right
          /\ g.pc = Len(g.insts)

\* C24: Or(left, right) lowered at address s is exactly Split(s+1, r) at s,
\* the code of left, Jump(e), the code of right, r being the address of
\* right's first instruction and e the address after its last, for every
\* pair of operands; "abc|123" is [Split(1,5), a, b, c, Jump(8), 1, 2, 3]
\* (and the Match).
C24_OrLowering ==
    /\ Generated =>
         \A e \in SubAsts(ast.v) :
             e.k = "Or" => \A at \in 0..2 : OrLowered(e, at)
    /\ expr = ABC_OR_123 /\ code.tag # "None" =>
         code = Ok(<<ISplit(1, 5), IChar("a"), IChar("b"), IChar("c"),
                     IJump(8), IChar("1"), IChar("2"), IChar("3"), IMatch>>)

\* "abc|123" was compiled
C24_Witness ==
    /\ expr = ABC_OR_123
    /\ code.tag = "Ok"
    /\ code.v[1] = ISplit(1, 5)
    /\ code.v[5] = IJump(8)

\* the calls of gen_expr made while gen_expr(g, e) runs: the generator at
\* entry and the Ast passed, for the call itself and every nested call
RECURSIVE GenCalls(_, _)
RECURSIVE GenCallsSeq(_, _)
GenCalls(g, e) ==
    {[g |-> g, e |-> e]} \cup
    CASE e.k = "Plus" -> GenCalls(g, e.e)
      [] e.k \in {"Star", "Question"} ->
           LET g1 == gen_split_head(g)
           IN  IF g1.err # "None" THEN {} ELSE GenCalls(g1, e.e)
      [] e.k = "Or" ->
           LET g1 == gen_split_head(g)
               g2 == gen_expr(g1, e.e1)
               g3 == gen_or_mid(g2, g.pc)
           IN  IF g1.err # "None" THEN {}
               ELSE GenCalls(g1, e.e1) \cup
                    IF g2.err # "None" \/ g3.err # "None" THEN {}
                    ELSE GenCalls(g3, e.e2)
      [] e.k = "Seq" -> GenCallsSeq(g, e.es)
      [] OTHER -> {}

GenCallsSeq(g, exprs) ==
    IF exprs = <<>> THEN {}
    ELSE LET g1 == gen_expr(g, Head(exprs))
         IN  GenCalls(g, Head(exprs)) \cup
             IF g1.err # "None" THEN {} ELSE GenCallsSeq(g1, Tail(exprs))

\* the calls of gen_expr made by get_code(ast)
CodeCalls == IF ast.tag = "Ok" THEN GenCalls(Generator_default, ast.v) ELSE {}

\* new is old with operand f of the instruction at addr set to v, and
\* nothing else changed
OnlyOperand(old, new, addr, f, v) ==
    /\ addr < Len(old)
    /\ new = [old EXCEPT ![addr + 1][f] = v]

\* the operand is still the placeholder 0 in g
Placeholder(g, addr, f) == addr < Len(g.insts) /\ g.insts[addr + 1][f] = 0

\* one call of gen_star, gen_question or gen_or: the split's second target
\* is the placeholder from its push until the one patch, which changes that
\* operand only and leaves a target past the split
SplitPatched(c) ==
    LET s == c.g.pc
        g1 == gen_split_head(c.g)
        g2 == gen_expr(g1, IF c.e.k = "Or" THEN c.e.e1 ELSE c.e.e)
        pushed == IF c.e.k = "Star" THEN Append(g2.insts, IJump(s))
                  ELSE IF c.e.k = "Or" THEN Append(g2.insts, IJump(0))
                  ELSE g2.insts
        g3 == CASE c.e.k = "Star" -> gen_star_tail(g2, s)
                [] c.e.k = "Question" -> gen_question_tail(g2, s)
                [] OTHER -> gen_or_mid(g2, s)
    IN  g2.err = "None" =>
          /\ g1.insts = Append(c.g.insts, ISplit(s + 1, 0))
          /\ Placeholder(g2, s, "y")
          /\ g3.err = "None"
          /\ OnlyOperand(pushed, g3.insts, s, "y", g3.pc)
          /\ g3.insts[s + 1].y > s

\* one call of gen_or: the jump's target is the placeholder from its push
\* until the one patch at the end of the call, which changes that operand
\* only and leaves a target past the jump
JumpPatched(c) ==
    LET s == c.g.pc
        g2 == gen_expr(gen_split_head(c.g), c.e.e1)
        j == g2.pc
        g3 == gen_or_mid(g2, s)
        g4 == gen_expr(g3, c.e.e2)
        g5 == gen_or_tail(g4, j)
    IN  g2.err = "None" /\ g4.err = "None" =>
          /\ g3.insts[j + 1] = IJump(0)
          /\ Placeholder(g4, j, "x")
          /\ g4.insts[s + 1] = g3.insts[s + 1]
          /\ g5.err = "None"
          /\ OnlyOperand(g4.insts, g5.insts, j, "x", g5.pc)
          /\ g5.insts[j + 1].x > j
          /\ g5 = gen_expr(c.g, c.e)

\* what a call returned stays in the finished program: the instructions
\* emitted before the call, and the operands the call patched
KeptInProgram(c) ==
    LET s == c.g.pc
        r == gen_expr(c.g, c.e)
    IN  r.err = "None" =>
          /\ SubSeq(r.insts, 1, s) = c.g.insts
          /\ code.tag = "Ok" =>
               /\ \A i \in (s + 1)..Len(r.insts) : code.v[i] = r.insts[i]
               /\ c.e.k \in {"Star", "Question", "Or"} =>
                      code.v[s + 1].op = "Split" /\ code.v[s + 1].y > s

\* the address of the Jump of the Or called as c
JumpAddr(c) == gen_expr(gen_split_head(c.g), c.e.e1).pc

\* C25: each placeholder operand (second target of the Split of a Star,
\* Question or Or, target of the Jump of an Or) is overwritten once, before
\* the gen_* call that pushed it returns; the patch changes that operand of
\* that instruction only; in the finished program each such operand is
\* greater than the address of its instruction.
C25_BackpatchExact ==
    Generated =>
      \A c \in CodeCalls :
          /\ c.e.k \in {"Star", "Question", "Or"} => SplitPatched(c)
          /\ c.e.k = "Or" => JumpPatched(c)
          /\ KeptInProgram(c)
          /\ c.e.k = "Or" /\ code.tag = "Ok" =>
                 /\ code.v[JumpAddr(c) + 1].op = "Jump"
                 /\ code.v[JumpAddr(c) + 1].x > JumpAddr(c)

\* an alternation was compiled while the placeholder of an enclosing
\* Star, Question or Or was still waiting for its patch
C25_Witness ==
    /\ code.tag = "Ok"
    /\ \E c \in CodeCalls :
         /\ c.e.k = "Or"
         /\ \E i \in 1..Len(c.g.insts) :
                c.g.insts[i].op = "Split" /\ c.g.insts[i].y = 0

\* one call of gen_expr that returned Ok: pc is the number of instructions
\* at entry and at return, and the addresses the call recorded from pc
\* are the indexes of its Split, of the first instruction of its child and
\* of its Jump
PcIsLength(c) ==
    LET s == c.g.pc
        r == gen_expr(c.g, c.e)
    IN  r.err = "None" =>
          /\ s = Len(c.g.insts)
          /\ r.pc = Len(r.insts)
          /\ r.pc - s = Len(r.insts) - Len(c.g.insts)
          /\ c.e.k = "Char" => r.pc = s + 1 /\ r.insts[s + 1] = IChar(c.e.c)
          /\ c.e.k = "Plus" =>
               /\ r.insts[s + 1] = gen_expr(c.g, c.e.e).insts[s + 1]
               /\ r.insts[r.pc] = ISplit(s, r.pc)
          /\ c.e.k \in {"Star", "Question", "Or"} =>
               /\ r.insts[s + 1].op = "Split"
               /\ r.insts[s + 1].x = s + 1
          /\ c.e.k = "Star" => r.insts[r.pc] = IJump(s)
          /\ c.e.k = "Or" =>
               /\ JumpAddr(c) = s + 1 + Len(CodeAt(c.e.e1, s + 1))
               /\ r.insts[JumpAddr(c) + 1].op = "Jump"
               /\ r.insts[s + 1].y = JumpAddr(c) + 1

\* C26: whenever a gen_* method returns Ok, pc is the number of
\* instructions emitted so far, every emitted instruction having added one
\* to pc; so start_addr, split_addr and jmp_addr are the indexes of the
\* instructions they denote.
C26_PcTracksLength ==
    Generated =>
      /\ \A c \in CodeCalls : PcIsLength(c)
      /\ LET g == gen_code(Generator_default, ast.v)
         IN  g.err = "None" =>
               g.pc = Len(g.insts) /\ code = Ok(g.insts) /\ g.insts[g.pc] = IMatch

\* a Plus and an Or were compiled at addresses other than 0
C26_Witness ==
    /\ code.tag = "Ok"
    /\ \E c \in CodeCalls : c.e.k = "Plus" /\ c.g.pc > 0
    /\ \E c \in CodeCalls : c.e.k = "Or" /\ c.g.pc > 0

\* the alternatives parse hands to fold_or at a `)` or at the end: seq_or,
\* with Seq(seq) pushed when seq is not empty
Alternatives ==
    IF seq # <<>> THEN Append(seq_or, SeqAst(seq)) ELSE seq_or

\* Or(A1, Or(A2, ... Or(An-1, An))) for s = [A1, ..., An], n >= 1
RECURSIVE RightNested(_)
RightNested(s) ==
    IF Len(s) = 1 THEN s[1] ELSE Or(s[1], RightNested(Tail(s)))

\* the contiguous sublists of s, the empty one included
Sublists(s) == {SubSeq(s, i, j) : i \in 1..(Len(s) + 1), j \in 0..Len(s)}

SeqOfChars(cs) == SeqAst([i \in 1..Len(cs) |-> Char(cs[i])])

\* C27: fold_or of [A1, ..., An], n >= 2, is Or(A1, Or(A2, ... Or(An-1, An)));
\* of one alternative it is that alternative, not wrapped in Or; of no
\* alternative it is None; "abc|123|def" parses to Or(abc, Or(123, def)).
C27_FoldOrRightAssoc ==
    /\ \A s \in Sublists(Alternatives) :
          /\ s = <<>> => fold_or(s) = None
          /\ Len(s) = 1 => fold_or(s) = Some(s[1])
          /\ Len(s) >= 2 =>
               /\ fold_or(s) = Some(RightNested(s))
               /\ fold_or(s) = Some(Or(s[1], fold_or(Tail(s)).v))
    /\ ast.tag = "Ok" => ast.v = RightNested(Alternatives)
    /\ expr = ABC_OR_123_OR_DEF /\ ast.tag # "None" =>
         ast = Ok(Or(SeqOfChars(<<"a", "b", "c">>),
                     Or(SeqOfChars(<<"1", "2", "3">>),
                        SeqOfChars(<<"d", "e", "f">>))))

\* three alternatives were folded
C27_Witness ==
    /\ Len(Alternatives) = 3
    /\ ast.tag = "Ok"
    /\ ast.v.k = "Or"
    /\ ast.v.e2.k = "Or"

\* the locals of parse when it starts
ParserStart ==
    [seq |-> <<>>, seq_or |-> <<>>, stack |-> <<>>, state |-> "Char", ok |-> TRUE,
     err |-> None]

\* one iteration of the for loop of parse on the locals p, for the
\* character c at index i; ok is FALSE once an arm returned Err, and err
\* is then the Err returned
loop_body(p, c, i) ==
    IF p.state = "Char"
    THEN CASE c \in {"+", "*", "?"} ->
                LET r == parse_plus_star_question(p.seq, QuantifierKind(c), i)
                IN  IF r.tag = "Ok" THEN [p EXCEPT !.seq = r.v]
                    ELSE [p EXCEPT !.ok = FALSE, !.err = r]
           [] c = "(" ->
                [p EXCEPT !.stack = Append(p.stack, [prev |-> p.seq,
                                                     prev_or |-> p.seq_or]),
                          !.seq = <<>>, !.seq_or = <<>>]
           [] c = ")" ->
                IF p.stack = <<>>
                THEN [p EXCEPT !.ok = FALSE, !.err = Err(InvalidRightParen(i))]
                ELSE LET closed == close_group(Last(p.stack), p.seq, p.seq_or)
                     IN  [p EXCEPT !.stack = Front(p.stack),
                                   !.seq = closed.seq, !.seq_or = closed.seq_or]
           [] c = "|" ->
                IF p.seq = <<>> THEN [p EXCEPT !.ok = FALSE, !.err = Err(NoPrev(i))]
                ELSE [p EXCEPT !.seq_or = Append(p.seq_or, SeqAst(p.seq)),
                               !.seq = <<>>]
           [] c = "\\" -> [p EXCEPT !.state = "Escape"]
           [] c = "." -> [p EXCEPT !.seq = Append(p.seq, Any)]
           [] OTHER -> [p EXCEPT !.seq = Append(p.seq, Char(c))]
    ELSE LET r == parse_escape(i, c)
         IN  IF r.tag = "Ok"
             THEN [p EXCEPT !.seq = Append(p.seq, r.v), !.state = "Char"]
             ELSE [p EXCEPT !.ok = FALSE, !.err = r]

\* the locals of parse(e) after the first n characters of e
RECURSIVE ParserAt(_, _)
ParserAt(e, n) ==
    IF n = 0 THEN ParserStart
    ELSE LET p == ParserAt(e, n - 1)
         IN  IF p.ok THEN loop_body(p, e[n], n - 1) ELSE p

\* the number of groups open after the first n characters of e
OpenGroups(e, n) == PlainCount(e, n, "(") - PlainCount(e, n, ")")

\* the index of the `(` that the `)` at index i closes
MatchingOpen(e, i) ==
    LET opens == {m \in 0..(i - 1) : /\ e[m + 1] = "("
                                     /\ PlainAt(e, m)
                                     /\ OpenGroups(e, m) = OpenGroups(e, i + 1)}
    IN  CHOOSE m \in opens : \A k \in opens : k <= m

\* parse has just read a `)` that closed a group
GroupClosed ==
    /\ ParseRunning
    /\ idx > 0
    /\ expr[idx] = ")"
    /\ PlainAt(expr, idx - 1)

\* C28: after a `(` and its matching `)`, seq is the seq saved at the `(`
\* with at most one element appended (the folded Ast of the group, nothing
\* when the group holds no alternative, as in "()" and "(())") and seq_or
\* is the seq_or saved at the `(`:
\* alternatives of the group do not reach the enclosing alternation, at any
\* nesting depth.
C28_GroupCloseRestores ==
    /\ ParseRunning =>
         /\ ParserAt(expr, idx).ok
         /\ <<seq, seq_or, stack, state>> =
              <<ParserAt(expr, idx).seq, ParserAt(expr, idx).seq_or,
                ParserAt(expr, idx).stack, ParserAt(expr, idx).state>>
    /\ GroupClosed =>
         LET m == MatchingOpen(expr, idx - 1)
             saved == ParserAt(expr, m)
             inside == ParserAt(expr, idx - 1)
             alts == IF inside.seq # <<>>
                     THEN Append(inside.seq_or, SeqAst(inside.seq))
                     ELSE inside.seq_or
         IN  /\ seq_or = saved.seq_or
             /\ stack = saved.stack
             /\ alts = <<>> => seq = saved.seq
             /\ alts # <<>> => seq = Append(saved.seq, RightNested(alts))
             /\ m = idx - 2 => alts = <<>>
    /\ expr = NESTED_PAREN /\ ParseReturned =>
         ast = Ok(SeqAst(<<SeqAst(<<Char("a"), Char("b"), Char("c"),
                                    SeqOfChars(<<"1", "2", "3">>),
                                    Char("d"), Char("e"), Char("f")>>)>>))

\* a group holding an alternation was closed inside an alternative of an
\* enclosing group that already holds an alternative
C28_Witness ==
    /\ GroupClosed
    /\ stack # <<>>
    /\ seq_or # <<>>
    /\ Len(seq) = 2
    /\ seq[2].k = "Or"

\* VecDeque::pop_front
pop_front(q) == IF q = <<>> THEN None ELSE Some([front |-> Head(q), rest |-> Tail(q)])

\* the deques eval_width calls pop_front on in the iteration it is about to
\* run: in the arm of a Char, Start or End that did not match (after the
\* queue.is_empty() test), and at the end of the loop (after the push_back)
PoppedQueues ==
    IF mode = "width" /\ InRange(code.v, pc) /\ ~QueueCapped
       /\ code.v[pc + 1].op \notin {"Match", "Split"}
    THEN LET inst == code.v[pc + 1]
             r == step_thread(inst, line, pc, sp)
             f == width_fail(inst, line, queue, pc, sp)
             in_arm == /\ r.tag = "Fail"
                       /\ queue # <<>>
                       /\ \/ inst.op = "Char" /\ InRange(line, sp)
                          \/ inst.op \in {"Start", "End"}
             at_end == CASE r.tag = "Ok" -> [q |-> queue, t |-> r.v]
                         [] r.tag = "Fail" /\ f.tag = "go" ->
                              [q |-> f.queue, t |-> [pc |-> f.pc, sp |-> f.sp]]
                         [] OTHER -> [q |-> <<>>, t |-> [pc |-> pc, sp |-> sp]]
         IN  (IF in_arm THEN {queue} ELSE {}) \cup
             (IF at_end.q # <<>> THEN {Append(at_end.q, at_end.t)} ELSE {})
    ELSE {}

\* C29: on a program made by get_code, for every input, neither mode
\* returns InvalidPC (the pc of the active thread, of every queued thread
\* and of every suspended Split's second branch is an index of the program)
\* and eval_width does not return InvalidContext (pop_front is not called
\* on an empty queue).
C29_NoInvalidPC ==
    code.tag = "Ok" =>
      /\ result["depth"] # "InvalidPC"
      /\ result["width"] \notin {"InvalidPC", "InvalidContext"}
      /\ mode # "None" =>
           /\ InRange(code.v, pc)
           /\ ret # "InvalidPC"
           /\ \A i \in 1..Len(queue) : InRange(code.v, queue[i].pc)
           /\ \A i \in 1..Len(calls) : InRange(code.v, calls[i].addr2)
      /\ \A q \in PoppedQueues : pop_front(q) # None

\* both modes returned on a program with a loop, eval_width having popped
\* its queue on the way
C29_Witness ==
    /\ code.tag = "Ok"
    /\ \E i \in 1..Len(code.v) : code.v[i].op = "Jump" /\ code.v[i].x < i - 1
    /\ result["depth"] \in {"true", "false"}
    /\ mode = "width"
    /\ PoppedQueues # {}
    /\ Len(queue) >= 2

\* how many times the thread t is in the sequence of threads ts
Occurrences(ts, t) == Cardinality({i \in 1..Len(ts) : ts[i] = t})

\* the thread eval_width puts behind the queued ones in this iteration: the
\* active thread advanced when it matches, the active thread itself when a
\* Char finds the input at its end while threads are queued
Requeued ==
    IF Succeeds THEN Advanced ELSE [pc |-> pc, sp |-> sp]

\* the active thread is dropped in this iteration
Dropped ==
    /\ ~Succeeds
    /\ ~(WidthInst.op = "Char" /\ ~InRange(line, sp))

\* an Ast with a repetition inside a repetition
NestedRepetition(e) ==
    \E r \in SubAsts(e) :
        /\ r.k \in {"Plus", "Star", "Question"}
        /\ \E c \in SubAsts(r.e) : c.k \in {"Plus", "Star", "Question"}

\* the same (pc, sp) is present more than once among the active and queued
\* threads
DuplicateThread ==
    \E i, j \in 1..Len(Threads) : i # j /\ Threads[i] = Threads[j]

\* C30: eval_width does not deduplicate threads.  A Split queues its second
\* branch, and the end of the loop queues the active thread, whether or not
\* an equal (pc, sp) is already queued; a thread that fails takes no equal
\* thread with it.  So equal threads accumulate, and the queue outgrows
\* program length times (input length + 1).
C30_NoDeduplication ==
    /\ [][WidthAt("Split") /\ result'.width = "Running" =>
            LET t == [pc |-> WidthInst.y, sp |-> sp]
            IN  Occurrences(queue', t) = Occurrences(queue, t) + 1]_vars
    /\ [][/\ mode = "width" /\ InRange(code.v, pc)
          /\ WidthInst.op \notin {"Split", "Match"}
          /\ result'.width = "Running"
          => /\ ~Dropped =>
                  Occurrences(Threads', Requeued) = Occurrences(queue, Requeued) + 1
             /\ Dropped =>
                  \A i \in 1..Len(queue) :
                      Occurrences(Threads', queue[i]) = Occurrences(queue, queue[i])]_vars

\* on a pattern with a repetition inside a repetition, equal threads are
\* queued and the queue is longer than program length times
\* (input length + 1)
C30_Witness ==
    /\ mode = "width"
    /\ ast.tag = "Ok"
    /\ NestedRepetition(ast.v)
    /\ DuplicateThread
    /\ Len(queue) > Len(code.v) * (Len(line) + 1)

\* fn parse(expr) -> Result<Ast, ParseError>: the for loop, then the checks
\* after it
parse(e) ==
    LET p == ParserAt(e, Len(e))
        so == IF p.seq # <<>> THEN Append(p.seq_or, SeqAst(p.seq)) ELSE p.seq_or
        f == fold_or(so)
    IN  IF ~p.ok THEN p.err
        ELSE IF p.stack # <<>> THEN Err(NoRightParen)
        ELSE IF f.tag = "Some" THEN Ok(f.v) ELSE Err(Empty)

\* the last character of e is a backslash read in plain mode
DanglingEscape(e) ==
    /\ e # <<>>
    /\ Last(e) = "\\"
    /\ PlainAt(e, Len(e) - 1)

\* parse has returned and get_code has not been called; ast does not change
\* afterwards
Parsed == ParseReturned /\ code.tag = "None"

\* C31: when the pattern ends in escape mode (its last character is an
\* unescaped backslash), parse reports no InvalidEscape for it and returns
\* what it returns for the pattern without that backslash; a lone backslash
\* gives Empty and "a\" parses like "a".
C31_DanglingEscape ==
    /\ Parsed => ast = parse(expr)
    /\ Parsed /\ DanglingEscape(expr) =>
         /\ ast = parse(Front(expr))
         /\ ~(ast.tag = "Err" /\ ast.e.e = "InvalidEscape"
              /\ ast.e.pos >= Len(expr) - 1)
    /\ ParseReturned /\ expr = <<"\\">> => ast = Err(Empty)
    /\ ParseReturned /\ expr = <<"a", "\\">> => ast = Ok(SeqAst(<<Char("a")>>))

\* parse returned Ok on a four-character pattern that ended in escape mode
C31_Witness ==
    /\ ParseReturned
    /\ state = "Escape"
    /\ idx = Len(expr)
    /\ DanglingEscape(expr)
    /\ ast.tag = "Ok"
    /\ Len(expr) = 4

\* e without its character at index i
RemoveAt(e, i) == SubSeq(e, 1, i) \o SubSeq(e, i + 2, Len(e))

\* the `|` at index i of e was read without error, and the end of the
\* pattern or a `)` follows it at once
EmptyRightOperand(e, i) ==
    /\ e[i + 1] = "|"
    /\ PlainAt(e, i)
    /\ ParserAt(e, i + 1).ok
    /\ i + 1 = Len(e) \/ e[i + 2] = ")"

\* the locals of parse that the rest of the pattern is read with
Buffers(p) == <<p.seq, p.seq_or, p.stack, p.state, p.ok>>

\* C32: an empty right operand of `|` is accepted, an empty left operand is
\* not.  When `|` is directly followed by the end of the pattern or by `)`,
\* the alternation is dropped and parse goes on as for the pattern without
\* that `|`: parse("a|") = parse("a"), parse("(a|)") = parse("(a)"), while
\* parse("|a") is Err(NoPrev(0)).
C32_EmptyRightOperand ==
    /\ Parsed =>
         \A i \in 0..(Len(expr) - 1) :
             EmptyRightOperand(expr, i) =>
                 LET without == RemoveAt(expr, i)
                 IN  /\ i + 1 = Len(expr) => ast = parse(without)
                     /\ i + 1 < Len(expr) /\ ParserAt(expr, i + 2).ok =>
                          /\ Buffers(ParserAt(expr, i + 2)) =
                               Buffers(ParserAt(without, i + 1))
                          /\ ast.tag = "Ok" => ast = parse(without)
                     /\ i + 1 < Len(expr) /\ ~ParserAt(expr, i + 2).ok =>
                          /\ ast = Err(InvalidRightParen(i + 1))
                          /\ parse(without) = Err(InvalidRightParen(i))
    /\ Parsed /\ expr = <<"a", "|">> => ast = Ok(SeqAst(<<Char("a")>>))
    /\ Parsed /\ expr = <<"(", "a", "|", ")">> =>
         ast = Ok(SeqAst(<<SeqAst(<<Char("a")>>)>>))
    /\ Parsed /\ expr = <<"|", "a">> => ast = Err(NoPrev(0))
    /\ Parsed /\ expr # <<>> /\ Head(expr) = "|" => ast = Err(NoPrev(0))

\* "(a|)" was parsed
C32_Witness ==
    /\ Parsed
    /\ expr = <<"(", "a", "|", ")">>
    /\ ast.tag = "Ok"
    /\ EmptyRightOperand(expr, 2)

\* C33: safe_add(dst, src, f) on usize sets dst to dst + src and returns Ok
\* when the sum fits in usize; when it does not, it returns Err(f()) and
\* leaves dst as it was, without wrapping: no call takes dst past usize::MAX,
\* and Generator::inc_pc advances pc in the same way.  10 + 20 is Ok with
\* 30; !0 + 1 is Err.
C33_SafeAdd ==
    /\ [][Len(added') = Len(added) + 1 =>
            /\ dst + src' <= UsizeMax =>
                 dst' = dst + src' /\ Last(added') = "Ok"
            /\ dst + src' > UsizeMax =>
                 dst' = dst /\ Last(added') = "Err"
            /\ dst = 10 /\ src' = 20 => dst' = 30 /\ Last(added') = "Ok"
            /\ dst = UsizeMax /\ src' = 1 => Last(added') = "Err"]_vars
    /\ [](dst <= UsizeMax)
    /\ [](LET g == inc_pc([pc |-> dst, insts |-> <<>>, err |-> "None"])
              r == safe_add(dst, 1, "PCOverFlow")
          IN  g.pc = r.dst /\ (g.err = "None" <=> r.ret = "Ok")
              /\ (g.err # "None" => g.err = r.ret))

\* a call took dst to usize::MAX and the next call, which would overflow,
\* returned Err and left it there
C33_Witness ==
    /\ added = <<"Ok", "Err">>
    /\ dst = UsizeMax
    /\ src > 0

====
